---- MODULE Spec2Model ----
(***************************************************************************)
(* Verification model of go-api-starter: the failover cache orchestrator   *)
(* (pkg/cache/fallback_cache.go) over two CacheBackend implementations,    *)
(* the in-process cache, the CacheBackend-backed permission cache, the     *)
(* rate limiter, the container's shutdown, and                             *)
(* the bit-packed permission registry / evaluator                          *)
(* (internal/service/bit_permission_manager.go).                           *)
(***************************************************************************)
EXTENDS Integers, Sequences, FiniteSets, TLC

(***************************************************************************)
(* Part I.  The failover orchestrator                                      *)
(***************************************************************************)

\* fallback_cache.go:12-13
modePrimary == 0
modeFallback == 1

\* Bounds of the cache model
MaxVal == 1
MaxCount == 1

Backends == {"primary", "fallback"}
\* Key <<1, 1>> has key <<1>> as a prefix (strings.HasPrefix).
Keys == {<<1>>, <<1, 1>>}
CounterKeys == {<<2>>}
Values == 1..MaxVal
\* ttl = 0 means "never expires"; the backends of this part keep no clock,
\* so a ttl is handed to the backend and no entry expires within a run.
TTLs == {0, 1}
\* the absent entry (values start at 1)
None == 0

ErrNil == "nil"
ErrKeyNotFound == "ErrKeyNotFound"
ErrBackend == "ErrBackend"

VARIABLES
    mode,       \* FallbackCache.mode
    up,         \* per backend: does the remote service answer
    avail,      \* RedisCache.isAvailable of the primary, refreshed by Ping
    data,       \* per backend: key -> None | value
    cnt,        \* per backend: counter key -> 0 (absent) | n
    fcLast      \* the last orchestrator call: operation, mode on entry,
                \* backend calls made with their results, result returned

fcVars == <<mode, up, avail, data, cnt, fcLast>>

\* the tables of the permission registry (Part II)
VARIABLES
    spaces,     \* permission_spaces rows: [id, name]
    perms,      \* permissions rows: [code, space, position, value, deleted]
    roles,      \* roles rows: [id, name, isSystem, deleted]
    userRoles,  \* user_roles rows: <<user, role>>
    rolePerms,  \* role_permissions rows: [role, perm, space, value]
    cache,      \* user_permission_caches rows: [user, space, value, expiresAt]
    now,        \* time.Now()
    pLast       \* the last call: operation, error, arguments, answer

pVars == <<spaces, perms, roles, userRoles, rolePerms, cache, now, pLast>>

\* The PermissionCache hit/miss counters, and the registry call whose
\* repository calls are under way (its name, arguments and next step)
VARIABLES
    stats,
    call,
    path        \* the last permission check: the branch it took, the
                \* repository call that failed in it
VARIABLE calc   \* the last aggregation: the order the roles and links were
                \* read in, and the map it built
\* The registry mutation last run against a cache store that may fail, the
\* in-process cache (MemoryCache) with its last call, the backend the
\* container wired, the goroutines and channels of the orchestrator, and the
\* key space behind the CacheBackend-backed permission cache
VARIABLES
    mut,        \* the last mutation: handler, arguments, was the invalidation
                \* made to fail, error returned
    mc,         \* MemoryCache: data, counters, available, stopCh, cleanupLoop
    mcLast,     \* the last MemoryCache call: operation, key, result
    wired,      \* Container.cacheBackend: "memory" or "fallback"
    fcc,        \* FallbackCache: stopCh, healthCheckLoop, the backends closed
    rpc,        \* the keys RedisPermissionCache has stored, with their values
    rpcLast,    \* the last RedisPermissionCache call and the backend calls
                \* it made
    gor,        \* the calls under way in concurrent goroutines: per
                \* goroutine the handler, its next step and its locals
    hist        \* what the finished calls did, as far as a later call
                \* is judged by it
xVars == <<mut, mc, mcLast, wired, fcc, rpc, rpcLast, gor, hist>>
sVars == <<stats, call, path, calc, xVars>>

vars == <<fcVars, pVars, sVars>>

Result(err, val) == [err |-> err, val |-> val]
\* a boolean return value, carried in the integer result field
BoolVal(x) == IF x THEN 1 ELSE 0
IsErr(r) == r.err # ErrNil

HasPrefix(k, p) == Len(p) <= Len(k) /\ SubSeq(k, 1, Len(p)) = p

\* One call on one backend: the result it returns and the stores after it.
\* A backend whose service is down returns an error and changes nothing.
BackendCall(b, op, k, v, t, D, C) ==
    IF ~up[b] THEN [res |-> Result(ErrBackend, 0), data |-> D, cnt |-> C]
    ELSE CASE op = "Get" ->
                [res |-> IF D[b][k] = None THEN Result(ErrKeyNotFound, 0)
                         ELSE Result(ErrNil, D[b][k]),
                 data |-> D, cnt |-> C]
           [] op = "Set" ->
                [res |-> Result(ErrNil, 0),
                 data |-> [D EXCEPT ![b][k] = v],
                 cnt |-> C]
           [] op = "Delete" ->
                [res |-> Result(ErrNil, 0),
                 data |-> [D EXCEPT ![b][k] = None], cnt |-> C]
           [] op = "DeleteByPrefix" ->
                [res |-> Result(ErrNil, 0),
                 data |-> [D EXCEPT ![b] =
                    [x \in Keys |-> IF HasPrefix(x, k) THEN None ELSE D[b][x]]],
                 cnt |-> C]
           [] op = "Exists" ->
                [res |-> Result(ErrNil, BoolVal(D[b][k] # None)), data |-> D, cnt |-> C]
           [] op \in {"Incr", "IncrWithExpire"} ->
                [res |-> Result(ErrNil, C[b][k] + 1), data |-> D,
                 cnt |-> [C EXCEPT ![b][k] = C[b][k] + 1]]

\* mutant of current: the mode flag is not consulted
current_AlwaysPrimary(m) == "primary"

\* FallbackCache.current
current(m) == IF m = modeFallback THEN "fallback" ELSE "primary"

\* mutants of ShouldFailover: never fail over / retry whatever the mode
ShouldFailover_Never(r1, m) == FALSE
ShouldFailover_IgnoreMode(r1, m) == IsErr(r1)

\* Does the operation fail over after the first attempt returned r1 ?
\* (err != nil && f.mode.Load() == modePrimary)
ShouldFailover(r1, m) == IsErr(r1) /\ m = modePrimary

\* mutant of ModeAfter: a successful call switches back to the primary
ModeAfter_RecoverOnSuccess(r1, m) == IF IsErr(r1) THEN modeFallback ELSE modePrimary

\* The mode an operation leaves behind: f.mode.Store(modeFallback) on failover
ModeAfter(r1, m) == IF ShouldFailover(r1, m) THEN modeFallback ELSE m

\* The shared shape of Get/Set/Delete/DeleteByPrefix/Exists/Incr/IncrWithExpire
FCOperation(op, k, v, t) ==
    LET b1 == current(mode)
        c1 == BackendCall(b1, op, k, v, t, data, cnt)
    IN  /\ mode' = ModeAfter(c1.res, mode)
        /\ IF ShouldFailover(c1.res, mode)
           THEN LET c2 == BackendCall("fallback", op, k, v, t, c1.data, c1.cnt)
                IN  /\ data' = c2.data
                    /\ cnt' = c2.cnt
                    /\ fcLast' = [op |-> op, mode0 |-> mode, arg |-> <<k, v>>,
                                  calls |-> <<[b |-> b1, res |-> c1.res],
                                              [b |-> "fallback", res |-> c2.res]>>,
                                  res |-> c2.res]
           ELSE /\ data' = c1.data
                /\ cnt' = c1.cnt
                /\ fcLast' = [op |-> op, mode0 |-> mode, arg |-> <<k, v>>,
                              calls |-> <<[b |-> b1, res |-> c1.res]>>,
                              res |-> c1.res]

Get(k) == FCOperation("Get", k, 0, 0) /\ UNCHANGED <<up, avail, pVars, sVars>>
Set(k, v, t) == FCOperation("Set", k, v, t) /\ UNCHANGED <<up, avail, pVars, sVars>>
Delete(k) == FCOperation("Delete", k, 0, 0) /\ UNCHANGED <<up, avail, pVars, sVars>>
DeleteByPrefix(p) == FCOperation("DeleteByPrefix", p, 0, 0) /\ UNCHANGED <<up, avail, pVars, sVars>>
Exists(k) == FCOperation("Exists", k, 0, 0) /\ UNCHANGED <<up, avail, pVars, sVars>>
Incr(k) ==
    /\ \A b \in Backends : cnt[b][k] < MaxCount
    /\ FCOperation("Incr", k, 0, 0)
    /\ UNCHANGED <<up, avail, pVars, sVars>>
IncrWithExpire(k, t) ==
    /\ \A b \in Backends : cnt[b][k] < MaxCount
    /\ FCOperation("IncrWithExpire", k, 0, t)
    /\ UNCHANGED <<up, avail, pVars, sVars>>

\* RedisCache.Ping: the live answer, remembered in isAvailable
PingResult(b) == IF up[b] THEN Result(ErrNil, 0) ELSE Result(ErrBackend, 0)

\* FallbackCache.Ping
Ping ==
    LET b == current(mode)
    IN  /\ avail' = IF b = "primary" THEN up[b] ELSE avail
        /\ fcLast' = [op |-> "Ping", mode0 |-> mode, arg |-> <<>>,
                      calls |-> <<[b |-> b, res |-> PingResult(b)]>>,
                      res |-> PingResult(b)]
        /\ UNCHANGED <<mode, up, data, cnt, pVars, sVars>>

\* RedisCache.IsAvailable is the remembered flag; MemoryCache.IsAvailable is
\* true until the cache is closed.
BackendIsAvailable(b) == IF b = "primary" THEN avail ELSE TRUE

\* FallbackCache.IsAvailable
IsAvailable ==
    /\ fcLast' = [op |-> "IsAvailable", mode0 |-> mode, arg |-> <<>>,
                  calls |-> <<>>,
                  res |-> Result(ErrNil, BoolVal(BackendIsAvailable(current(mode))))]
    /\ UNCHANGED <<mode, up, avail, data, cnt, pVars, sVars>>

\* FallbackCache.IsDegraded
IsDegraded == mode = modeFallback

\* mutant of RecoverMode: the recovery branch is missing
RecoverMode_NoRecovery(pingOk, currentMode) ==
    IF ~pingOk /\ currentMode = modePrimary THEN modeFallback ELSE currentMode

\* The mode checkAndRecover stores, given the ping outcome and the mode read
RecoverMode(pingOk, currentMode) ==
    IF ~pingOk /\ currentMode = modePrimary THEN modeFallback
    ELSE IF pingOk /\ currentMode = modeFallback THEN modePrimary
    ELSE currentMode

\* One tick of healthCheckLoop: checkAndRecover
HealthCheckTick ==
    /\ avail' = up["primary"]
    /\ mode' = RecoverMode(up["primary"], mode)
    /\ fcLast' = [op |-> "tick", mode0 |-> mode, arg |-> <<>>,
                  calls |-> <<[b |-> "primary", res |-> PingResult("primary")]>>,
                  res |-> PingResult("primary")]
    /\ UNCHANGED <<up, data, cnt, pVars, sVars>>

\* Environment: a backend's service goes down or comes back
BackendFlip(b) ==
    /\ up' = [up EXCEPT ![b] = ~up[b]]
    /\ UNCHANGED <<mode, avail, data, cnt, fcLast, pVars, sVars>>

\* The mode NewFallbackCache stores after its initial ping
InitialMode(pingOk) == IF pingOk THEN modePrimary ELSE modeFallback

\* key + "_exp", the key IncrWithExpire stores the expiry of a counter under
ExpSuffix == 0
ExpKey(k) == k \o <<ExpSuffix>>
MemKeys == Keys \cup {ExpKey(k) : k \in CounterKeys}

\* NewMemoryCache: empty maps, available, stopCh open, cleanupLoop started
NewMemoryCache ==
    [data |-> [k \in MemKeys |-> {}], counters |-> [k \in CounterKeys |-> 0],
     available |-> TRUE, stopCh |-> "open", loop |-> "running"]

\* NewFallbackCache: stopCh open, healthCheckLoop started, backends open
NewFallbackCacheLoop == [stopCh |-> "open", loop |-> "running", closed |-> {}]

NoMut == [op |-> "none", a |-> 0, codes |-> <<>>, failed |-> FALSE, err |-> ErrNil]

\* Nothing has been called on the caches yet
Quiet ==
    /\ mut = NoMut
    /\ mc = NewMemoryCache
    /\ mcLast = [op |-> "New", key |-> <<>>, val |-> 0, ttl |-> 0, now |-> 0,
                 loaded |-> FALSE, res |-> Result(ErrNil, 0)]
    /\ fcc = NewFallbackCacheLoop
    /\ rpc = {}
    /\ rpcLast = [op |-> "New", user |-> 0, calls |-> <<>>, err |-> ErrNil]
    /\ gor = <<>>
    /\ hist = <<>>

\* NewPermissionCache: zeroed counters; no registry call under way
Idle == [op |-> "Idle", pc |-> "idle", a |-> 0, b |-> 0, uids |-> {}]
NoPath == [taken |-> "none", fault |-> "none"]
Unwired ==
    /\ stats = [hits |-> 0, misses |-> 0]
    /\ call = Idle
    /\ path = NoPath
    /\ calc = [roles |-> <<>>, dir |-> "asc", sv |-> <<>>]
    /\ Quiet
\* Container.CacheBackend with Redis and the fallback enabled
NoCall == Unwired /\ wired = "fallback"

\* An empty database
EmptyDB ==
    /\ spaces = {}
    /\ perms = {}
    /\ roles = {}
    /\ userRoles = {}
    /\ rolePerms = {}
    /\ cache = {}
    /\ now = 1
    /\ pLast = [op |-> "New", err |-> ErrNil, a |-> 0, b |-> 0, ret |-> FALSE]
    /\ NoCall

\* NewFallbackCache over freshly connected backends
FCStart ==
    /\ up \in [Backends -> BOOLEAN]
    /\ avail = up["primary"]
    /\ mode = InitialMode(up["primary"])
    /\ data = [b \in Backends |-> [k \in Keys |-> None]]
    /\ cnt = [b \in Backends |-> [k \in CounterKeys |-> 0]]
    /\ fcLast = [op |-> "New", mode0 |-> modePrimary, arg |-> <<>>,
                 calls |-> <<[b |-> "primary", res |-> PingResult("primary")]>>,
                 res |-> PingResult("primary")]

FCInit == EmptyDB /\ FCStart

FCNext ==
    \/ \E k \in Keys : Get(k)
    \/ \E k \in Keys, v \in Values, t \in TTLs : Set(k, v, t)
    \/ \E k \in Keys : Delete(k)
    \/ \E p \in Keys : DeleteByPrefix(p)
    \/ \E k \in Keys : Exists(k)
    \/ \E k \in CounterKeys : Incr(k)
    \/ \E k \in CounterKeys, t \in TTLs \ {0} : IncrWithExpire(k, t)
    \/ Ping
    \/ IsAvailable
    \/ HealthCheckTick
    \/ \E b \in Backends : BackendFlip(b)

SpecFC == FCInit /\ [][FCNext]_vars

\* The health-check ticker keeps firing (time.NewTicker in healthCheckLoop)
SpecFCFair == FCInit /\ [][FCNext]_vars /\ WF_vars(HealthCheckTick)

FailoverOps == {"Get", "Set", "Delete", "DeleteByPrefix", "Exists", "Incr",
                "IncrWithExpire"}
AllFailed(calls) == \A i \in 1..Len(calls) : IsErr(calls[i].res)

\* C1: an operation whose attempt on the primary fails while the mode is
\* Primary sets the mode to Fallback, runs the same operation once on the
\* secondary and returns the secondary's result; a Set that failed over to a
\* working secondary has stored its value there.
C1_FailoverOnPrimaryError ==
    (/\ fcLast.op \in FailoverOps
     /\ fcLast.mode0 = modePrimary
     /\ IsErr(fcLast.calls[1].res))
    => /\ fcLast.calls[1].b = "primary"
       /\ mode = modeFallback
       /\ Len(fcLast.calls) = 2
       /\ fcLast.calls[2].b = "fallback"
       /\ fcLast.res = fcLast.calls[2].res
       /\ (fcLast.op = "Set" /\ ~IsErr(fcLast.res)
             => data["fallback"][fcLast.arg[1]] = fcLast.arg[2])

C1_Witness ==
    /\ fcLast.op = "Set"
    /\ fcLast.mode0 = modePrimary
    /\ Len(fcLast.calls) = 2
    /\ IsErr(fcLast.calls[1].res)
    /\ ~IsErr(fcLast.res)

\* C2: a failed ping of the primary at construction, or at a tick in Primary
\* mode, leaves the mode Fallback and IsDegraded true; a get/set entered in
\* Fallback mode calls the secondary only.
C2_FailedPingDegrades ==
    /\ (fcLast.op \in {"New", "tick"} /\ fcLast.mode0 = modePrimary
          /\ IsErr(fcLast.res))
       => (mode = modeFallback /\ IsDegraded)
    /\ (fcLast.op \in {"Get", "Set"} /\ fcLast.mode0 = modeFallback)
       => (Len(fcLast.calls) = 1 /\ fcLast.calls[1].b = "fallback")

C2_Witness ==
    /\ fcLast.op = "Get"
    /\ fcLast.mode0 = modeFallback
    /\ ~up["primary"]
    /\ IsDegraded
    /\ fcLast.res.err = ErrNil

\* C3: in Fallback mode with a healthy primary, a health-check tick
\* eventually happens (unless the primary fails again first); a tick whose
\* ping succeeds leaves the mode Primary and IsDegraded false; an operation
\* entered in Primary mode makes its first call on the primary.
C3_RecoversToPrimary ==
    /\ (mode = modeFallback /\ up["primary"])
          ~> (mode = modePrimary \/ ~up["primary"])
    /\ [](fcLast.op = "tick" /\ ~IsErr(fcLast.res)
            => (mode = modePrimary /\ ~IsDegraded))
    /\ [](fcLast.op \in FailoverOps /\ fcLast.mode0 = modePrimary
            => fcLast.calls[1].b = "primary")

C3_Witness ==
    /\ fcLast.op = "tick"
    /\ fcLast.mode0 = modeFallback
    /\ ~IsErr(fcLast.res)
    /\ ~IsDegraded
    /\ \E k \in Keys : data["fallback"][k] # None

\* C4: the mode goes from Fallback to Primary only in a health-check tick
\* whose ping of the primary succeeded.
C4_OnlyTickRecovers ==
    [][(mode = modeFallback /\ mode' = modePrimary)
         => (fcLast'.op = "tick" /\ ~IsErr(fcLast'.res))]_vars

C4_Witness ==
    /\ fcLast.op = "tick"
    /\ fcLast.mode0 = modeFallback
    /\ mode = modePrimary
    /\ avail

\* C5: in Fallback mode an error of the secondary is returned as it is, with
\* no call on the primary and no mode change; when the primary and the retry
\* on the secondary both fail the secondary's error is returned; a call that
\* failed on every backend tried never returns success.
C5_ErrorsSurface ==
    /\ (fcLast.op \in FailoverOps /\ fcLast.mode0 = modeFallback
          /\ IsErr(fcLast.calls[1].res))
       => /\ Len(fcLast.calls) = 1
          /\ fcLast.calls[1].b = "fallback"
          /\ fcLast.res = fcLast.calls[1].res
          /\ mode = modeFallback
    /\ (fcLast.op \in FailoverOps /\ Len(fcLast.calls) = 2
          /\ AllFailed(fcLast.calls))
       => fcLast.res = fcLast.calls[2].res
    /\ (fcLast.op \in FailoverOps /\ AllFailed(fcLast.calls))
       => IsErr(fcLast.res)

C5_Witness ==
    /\ fcLast.op = "Get"
    /\ fcLast.mode0 = modePrimary
    /\ Len(fcLast.calls) = 2
    /\ fcLast.calls[1].res.err = ErrBackend
    /\ fcLast.res.err = ErrKeyNotFound

TypeFC == mode \in {modePrimary, modeFallback}

(***************************************************************************)
(* Part II.  The bit-packed permission registry and evaluator              *)
(***************************************************************************)

\* bit_permission_manager.go:68 : a space holds positions 0..63
MaxPositions == 64
\* uint8(nextPos)
Uint8Range == 256

\* Bounds of the permission model
MaxSoftDeletes == 1

Users == {1}
SpaceNames == {"billing", "audit"}
\* role ids offered to the calls: 1 and 2 are seeded, 3 names no role
RoleIDs == {1, 2, 3}
NoPos == -1

ErrPermissionSpaceNotFound == "ErrPermissionSpaceNotFound"
ErrPermissionSpaceNameExists == "ErrPermissionSpaceNameExists"
ErrPermissionSpaceFull == "ErrPermissionSpaceFull"
ErrPermissionNotFound == "ErrPermissionNotFound"
ErrPermissionCodeExists == "ErrPermissionCodeExists"
ErrRoleNotFound == "ErrRoleNotFound"
ErrSystemRoleCannotBeDeleted == "ErrSystemRoleCannotBeDeleted"
ErrUserRoleNotFound == "ErrUserRoleNotFound"
ErrUserRoleAlreadyExists == "ErrUserRoleAlreadyExists"


\* A uint64 is modelled as the set of its one-bits: | is union, & is
\* intersection, and 1 << n is {n} for n < 64 and 0 for a larger shift.
\* mutant of ShiftOne: the shift count is ignored
ShiftOne_NoShift(n) == IF n < 64 THEN {0} ELSE {}

\* uint64(1) << n
ShiftOne(n) == IF n < 64 THEN {n} ELSE {}
BitOr(a, b) == a \cup b
BitAnd(a, b) == a \cap b
\* the number a bit set stands for (used on small masks only)
RECURSIVE MaskValue(_)
MaskValue(m) ==
    IF m = {} THEN 0
    ELSE LET n == CHOOSE x \in m : TRUE
         IN  2^n + MaskValue(m \ {n})

\* a call record: operation, error, its two arguments and a boolean answer
PLast(op, err, a, b, ret) ==
    [op |-> op, err |-> err, a |-> a, b |-> b, ret |-> ret]

\* ---- PermissionSpaceRepository (part_011) ----
SpaceExists(name) == \E sp \in spaces : sp.name = name
SpaceFindByID(id) == {sp \in spaces : sp.id = id}

\* ---- PermissionRepository: its implementation is not part of the sources;
\* the rows are soft-deleted (gorm.DeletedAt) and the code column is unique.
LivePerms == {p \in perms : ~p.deleted}
PermFindByCode(code) == {p \in LivePerms : p.code = code}
PermExists(code) == \E p \in LivePerms : p.code = code
\* permissions.code carries a unique index over all rows (part_016:25)
PermCodeTaken(code) == \E p \in perms : p.code = code
\* the largest position ever assigned in the space, NoPos in an empty space;
\* soft-deleted rows count, so that a position is never handed out twice
GetMaxPositionInSpace(space) ==
    LET ps == {p.position : p \in {q \in perms : q.space = space}}
    IN  IF ps = {} THEN NoPos
        ELSE CHOOSE m \in ps : (m + 1) \notin ps /\ \A x \in ps : x <= m

\* ---- RoleRepository (multipart_repository.go:112-160), soft-deleting ----
RoleFindByID(id) == {r \in roles : r.id = id /\ ~r.deleted}

\* ---- UserRoleRepository (user_repository.go:182-232) ----
GetUserIDsByRoleID(role) == {ur[1] : ur \in {x \in userRoles : x[2] = role}}
RolesOfUser(u) == {ur[2] : ur \in {x \in userRoles : x[1] = u}}

\* ---- RolePermissionRepository (multipart_repository.go:383-450) ----
LinkExists(role, perm) == \E rp \in rolePerms : rp.role = role /\ rp.perm = perm
LinksOfRole(role) == {rp \in rolePerms : rp.role = role}

\* ---- UserPermissionCacheRepository (multipart_repository.go:187-224) ----
CacheFind(C, u, s) == {row \in C : row.user = u /\ row.space = s}
\* mutant of DeleteByUserIDs: the WHERE clause is lost
DeleteByUserIDs_All(C, uids) == {}

\* mutant of DeleteByUserIDs: nothing is deleted
DeleteByUserIDs_Nothing(C, uids) == C

DeleteByUserIDs(C, uids) == {row \in C : row.user \notin uids}
\* ON CONFLICT (user_id, space_id) DO UPDATE SET value, updated_at
Upsert(C, row) ==
    IF CacheFind(C, row.user, row.space) = {} THEN C \cup {row}
    ELSE {IF x.user = row.user /\ x.space = row.space
          THEN [x EXCEPT !.value = row.value] ELSE x : x \in C}
\* one Upsert per row of a set of rows with distinct (user, space)
RECURSIVE UpsertAll(_, _)
UpsertAll(C, rows) ==
    IF rows = {} THEN C
    ELSE LET row == CHOOSE x \in rows : TRUE
         IN  UpsertAll(Upsert(C, row), rows \ {row})


\* ---- BitPermissionManager ----

CreateSpace(name) ==
    /\ IF SpaceExists(name)
       THEN /\ pLast' = PLast("CreateSpace", ErrPermissionSpaceNameExists, 0, 0, FALSE)
            /\ UNCHANGED spaces
       ELSE /\ spaces' = spaces \cup {[id |-> Cardinality(spaces) + 1, name |-> name]}
            /\ pLast' = PLast("CreateSpace", ErrNil, 0, 0, FALSE)
    /\ UNCHANGED <<perms, roles, userRoles, rolePerms, cache, now, fcVars, sVars>>

\* mutant of NextPos: the new permission takes the current maximum
NextPos_Reuse(maxPos) == IF maxPos = NoPos THEN 0 ELSE maxPos

\* nextPos := maxPos + 1
NextPos(maxPos) == maxPos + 1

\* mutant of SpaceFull: the limit is off by one
SpaceFull_OffByOne(nextPos) == nextPos > MaxPositions

\* nextPos >= 64
SpaceFull(nextPos) == nextPos >= MaxPositions

NewPermission(code, spaceID, nextPos) ==
    [code |-> code, space |-> spaceID, position |-> nextPos % Uint8Range,
     value |-> ShiftOne(nextPos), deleted |-> FALSE]

CreatePermission(code, spaceID) ==
    LET nextPos == NextPos(GetMaxPositionInSpace(spaceID))
        err == IF SpaceFindByID(spaceID) = {} THEN ErrPermissionSpaceNotFound
               ELSE IF PermExists(code) THEN ErrPermissionCodeExists
               ELSE IF SpaceFull(nextPos) THEN ErrPermissionSpaceFull
               ELSE IF PermCodeTaken(code) THEN ErrBackend
               ELSE ErrNil
    IN  /\ perms' = IF err = ErrNil
                    THEN perms \cup {NewPermission(code, spaceID, nextPos)}
                    ELSE perms
        /\ pLast' = PLast("CreatePermission", err, spaceID, code, FALSE)
        /\ UNCHANGED <<spaces, roles, userRoles, rolePerms, cache, now, fcVars, sVars>>

\* DeletePermission: the row is kept and marked deleted
DeletePermission(code) ==
    /\ Cardinality(perms \ LivePerms) < MaxSoftDeletes
    /\ IF PermFindByCode(code) = {}
       THEN /\ pLast' = PLast("DeletePermission", ErrPermissionNotFound, code, 0, FALSE)
            /\ UNCHANGED perms
       ELSE /\ perms' = {IF p.code = code THEN [p EXCEPT !.deleted = TRUE] ELSE p
                         : p \in perms}
            /\ pLast' = PLast("DeletePermission", ErrNil, code, 0, FALSE)
    /\ UNCHANGED <<spaces, roles, userRoles, rolePerms, cache, now, fcVars, sVars>>

DeleteRole(id) ==
    /\ IF RoleFindByID(id) = {}
       THEN /\ pLast' = PLast("DeleteRole", ErrRoleNotFound, id, 0, FALSE)
            /\ UNCHANGED <<roles, rolePerms, cache>>
       ELSE IF \E r \in RoleFindByID(id) : r.isSystem
       THEN /\ pLast' = PLast("DeleteRole", ErrSystemRoleCannotBeDeleted, id, 0, FALSE)
            /\ UNCHANGED <<roles, rolePerms, cache>>
       ELSE /\ cache' = DeleteByUserIDs(cache, GetUserIDsByRoleID(id))
            /\ rolePerms' = rolePerms \ LinksOfRole(id)
            /\ roles' = {IF r.id = id THEN [r EXCEPT !.deleted = TRUE] ELSE r
                         : r \in roles}
            /\ pLast' = PLast("DeleteRole", ErrNil, id, 0, FALSE)
    /\ UNCHANGED <<spaces, perms, userRoles, now, fcVars, sVars>>

\* mutant of clearCacheForRole: the users of the role are not looked up
clearCacheForRole_Nobody(C, roleID) == C

\* clearCacheForRole: the cache rows left after the invalidation
clearCacheForRole(C, roleID) == DeleteByUserIDs(C, GetUserIDsByRoleID(roleID))

AddPermissionToRole(roleID, code) ==
    /\ IF RoleFindByID(roleID) = {}
       THEN /\ pLast' = PLast("AddPermissionToRole", ErrRoleNotFound, roleID, code, FALSE)
            /\ UNCHANGED <<rolePerms, cache>>
       ELSE IF PermFindByCode(code) = {}
       THEN /\ pLast' = PLast("AddPermissionToRole", ErrPermissionNotFound, roleID, code, FALSE)
            /\ UNCHANGED <<rolePerms, cache>>
       ELSE IF LinkExists(roleID, code)
       THEN /\ pLast' = PLast("AddPermissionToRole", ErrNil, roleID, code, FALSE)
            /\ UNCHANGED <<rolePerms, cache>>
       ELSE LET p == CHOOSE x \in PermFindByCode(code) : TRUE
            IN  /\ rolePerms' = rolePerms \cup
                      {[role |-> roleID, perm |-> p.code, space |-> p.space,
                        value |-> p.value]}
                /\ cache' = clearCacheForRole(cache, roleID)
                /\ pLast' = PLast("AddPermissionToRole", ErrNil, roleID, code, FALSE)
    /\ UNCHANGED <<spaces, perms, roles, userRoles, now, fcVars, sVars>>

RemovePermissionFromRole(roleID, code) ==
    /\ IF PermFindByCode(code) = {}
       THEN /\ pLast' = PLast("RemovePermissionFromRole", ErrPermissionNotFound, roleID, code, FALSE)
            /\ UNCHANGED <<rolePerms, cache>>
       ELSE /\ rolePerms' = {rp \in rolePerms : ~(rp.role = roleID /\ rp.perm = code)}
            /\ cache' = clearCacheForRole(cache, roleID)
            /\ pLast' = PLast("RemovePermissionFromRole", ErrNil, roleID, code, FALSE)
    /\ UNCHANGED <<spaces, perms, roles, userRoles, now, fcVars, sVars>>

AssignRoleToUser(userID, roleID) ==
    /\ IF RoleFindByID(roleID) = {}
       THEN /\ pLast' = PLast("AssignRoleToUser", ErrRoleNotFound, userID, roleID, FALSE)
            /\ UNCHANGED <<userRoles, cache>>
       ELSE IF <<userID, roleID>> \in userRoles
       THEN /\ pLast' = PLast("AssignRoleToUser", ErrUserRoleAlreadyExists, userID, roleID, FALSE)
            /\ UNCHANGED <<userRoles, cache>>
       ELSE /\ userRoles' = userRoles \cup {<<userID, roleID>>}
            /\ cache' = DeleteByUserIDs(cache, {userID})
            /\ pLast' = PLast("AssignRoleToUser", ErrNil, userID, roleID, FALSE)
    /\ UNCHANGED <<spaces, perms, roles, rolePerms, now, fcVars, sVars>>

RemoveRoleFromUser(userID, roleID) ==
    /\ IF <<userID, roleID>> \notin userRoles
       THEN /\ pLast' = PLast("RemoveRoleFromUser", ErrUserRoleNotFound, userID, roleID, FALSE)
            /\ UNCHANGED <<userRoles, cache>>
       ELSE /\ userRoles' = userRoles \ {<<userID, roleID>>}
            /\ cache' = DeleteByUserIDs(cache, {userID})
            /\ pLast' = PLast("RemoveRoleFromUser", ErrNil, userID, roleID, FALSE)
    /\ UNCHANGED <<spaces, perms, roles, rolePerms, now, fcVars, sVars>>

\* sv[rp.SpaceID] |= rp.Value over the links of the user's roles
LinksOfUser(userID) == {rp \in rolePerms : rp.role \in RolesOfUser(userID)}
SpacesOfLinks(links) == {rp.space : rp \in links}
OrOfLinks(links, spaceID) ==
    UNION {rp.value : rp \in {x \in links : x.space = spaceID}}

\* the expiry stamp of a row written without one (the zero time.Time)
ZeroTime == 0

\* one cache row per space of the aggregated map
ComputedRows(userID, expiresAt) ==
    {[user |-> userID, space |-> sid,
      value |-> OrOfLinks(LinksOfUser(userID), sid), expiresAt |-> expiresAt]
     : sid \in SpacesOfLinks(LinksOfUser(userID))}

\* BitPermissionManager.CalculateUserPermissions: the cache table after it
CalculateUserPermissions(C, userID) ==
    UpsertAll(DeleteByUserIDs(C, {userID}), ComputedRows(userID, ZeroTime))

\* mutant of MaskHas: any bit of the cached mask is enough
MaskHas_NonZero(cached, value) == BitOr(cached, {}) # {}

\* (cache.Value & p.Value) == p.Value
MaskHas(cached, value) == BitAnd(cached, value) = value

HasPermission(userID, code) ==
    /\ IF PermFindByCode(code) = {}
       THEN /\ pLast' = PLast("HasPermission", ErrNil, userID, code, FALSE)
            /\ UNCHANGED cache
       ELSE LET p == CHOOSE x \in PermFindByCode(code) : TRUE
                hit == CacheFind(cache, userID, p.space)
                C2 == IF hit = {} THEN CalculateUserPermissions(cache, userID)
                      ELSE cache
                row == CacheFind(C2, userID, p.space)
            IN  /\ cache' = C2
                /\ pLast' = PLast("HasPermission", ErrNil, userID, code,
                      IF row = {} THEN FALSE
                      ELSE MaskHas((CHOOSE x \in row : TRUE).value, p.value))
    /\ UNCHANGED <<spaces, perms, roles, userRoles, rolePerms, now, fcVars, sVars>>


\* ---- PermissionChecker over PermissionCache ----

\* container.go:250 : NewPermissionCache(cacheRepo, time.Hour); the clock
\* counts hours
PermCacheTTL == 1

\* PermissionCache.Get: the rows that count as a hit
PermissionCacheGet(C, userID, spaceID) ==
    {row \in CacheFind(C, userID, spaceID) :
        ~(PermCacheTTL > 0 /\ row.expiresAt < now)}

\* PermissionCache.Set
PermissionCacheSet(C, userID) ==
    UpsertAll(C, ComputedRows(userID, now + PermCacheTTL))

CheckerHasPermission(userID, code) ==
    /\ IF PermFindByCode(code) = {}
       THEN /\ pLast' = PLast("CheckerHasPermission", ErrNil, userID, code, FALSE)
            /\ UNCHANGED cache
       ELSE LET p == CHOOSE x \in PermFindByCode(code) : TRUE
                hit == PermissionCacheGet(cache, userID, p.space)
                links == LinksOfUser(userID)
            IN  IF hit # {}
                THEN /\ pLast' = PLast("CheckerHasPermission", ErrNil, userID, code,
                            MaskHas((CHOOSE x \in hit : TRUE).value, p.value))
                     /\ UNCHANGED cache
                ELSE /\ cache' = PermissionCacheSet(cache, userID)
                     /\ pLast' = PLast("CheckerHasPermission", ErrNil, userID, code,
                            IF p.space \notin SpacesOfLinks(links) THEN FALSE
                            ELSE MaskHas(OrOfLinks(links, p.space), p.value))
    /\ UNCHANGED <<spaces, perms, roles, userRoles, rolePerms, now, fcVars, sVars>>

\* ---- Specifications of the permission part ----

\* the code the k-th permission of a space is created with
CodeFor(spaceID, k) == 100 * spaceID + k
PermCount(spaceID) == Cardinality({p \in perms : p.space = spaceID})
SpaceIDs == 1..Cardinality(SpaceNames)

\* The orchestrator just built over two reachable, empty backends
FCIdle ==
    /\ up = [b \in Backends |-> TRUE]
    /\ avail = TRUE
    /\ mode = InitialMode(TRUE)
    /\ data = [b \in Backends |-> [k \in Keys |-> None]]
    /\ cnt = [b \in Backends |-> [k \in CounterKeys |-> 0]]
    /\ fcLast = [op |-> "New", mode0 |-> modePrimary, arg |-> <<>>,
                 calls |-> <<[b |-> "primary", res |-> Result(ErrNil, 0)]>>,
                 res |-> Result(ErrNil, 0)]

\* An empty database
PosInit == EmptyDB /\ FCIdle

\* One space is created and filled up to its capacity: each new permission
\* gets a fresh code, and the first code of the space is offered again to
\* meet the duplicate-code check; before CreateSpace the space is not found.
PosNext ==
    \/ CreateSpace("billing")
    \/ \E code \in {CodeFor(1, PermCount(1) + 1), CodeFor(1, 1)} :
          CreatePermission(code, 1)
    \/ \E p \in LivePerms : DeletePermission(p.code)
    \/ DeletePermission(CodeFor(1, MaxPositions + 1))

SpecPos == PosInit /\ [][PosNext]_vars

\* The database after CreateSpace("billing"), CreateSpace("audit"),
\* CreatePermission of 101 and 102 in billing and of 201 in audit, and the
\* creation of two roles without permissions.
SeedCodes == {CodeFor(1, 1), CodeFor(1, 2), CodeFor(2, 1)}
PermInit ==
    /\ FCIdle
    /\ spaces = {[id |-> 1, name |-> "billing"], [id |-> 2, name |-> "audit"]}
    /\ perms = {NewPermission(CodeFor(1, 1), 1, 0), NewPermission(CodeFor(1, 2), 1, 1),
                NewPermission(CodeFor(2, 1), 2, 0)}
    /\ roles = {[id |-> 1, name |-> "viewer", isSystem |-> FALSE, deleted |-> FALSE],
                [id |-> 2, name |-> "editor", isSystem |-> FALSE, deleted |-> FALSE]}
    /\ userRoles = {}
    /\ rolePerms = {}
    /\ cache = {}
    /\ now = 1
    /\ pLast = PLast("New", ErrNil, 0, 0, FALSE)
    /\ NoCall

PermNext ==
    \/ \E code \in SeedCodes : DeletePermission(code)
    \/ \E id \in RoleIDs : DeleteRole(id)
    \/ \E id \in RoleIDs, code \in SeedCodes : AddPermissionToRole(id, code)
    \/ \E id \in RoleIDs, code \in SeedCodes : RemovePermissionFromRole(id, code)
    \/ \E u \in Users, id \in RoleIDs : AssignRoleToUser(u, id)
    \/ \E u \in Users, id \in RoleIDs : RemoveRoleFromUser(u, id)
    \/ \E u \in Users, code \in SeedCodes : HasPermission(u, code)
    \/ \E u \in Users, code \in SeedCodes : CheckerHasPermission(u, code)

SpecPerm == PermInit /\ [][PermNext]_vars

\* C6: every permission row has a position in 0..63 and value = 2^position;
\* a space with permissions has one at position 0 with value 1; two rows of
\* one space never share a position or a value.
C6_DistinctPowersOfTwo ==
    /\ \A p \in perms :
          /\ p.position \in 0..(MaxPositions - 1)
          /\ p.value = {p.position}
    /\ \A sid \in SpaceIDs :
          LET inSpace == {p \in perms : p.space = sid}
          IN  /\ inSpace # {} =>
                    \E p \in inSpace : p.position = 0 /\ MaskValue(p.value) = 1
              /\ Cardinality({p.position : p \in inSpace}) = Cardinality(inSpace)
              /\ Cardinality({p.value : p \in inSpace}) = Cardinality(inSpace)

C6_Witness ==
    /\ \E p \in perms : p.deleted
    /\ \E p \in LivePerms : p.position = MaxPositions - 1

\* C7: in a space holding fewer than 64 permission rows a createPermission
\* with an unused code succeeds and adds one row; in a space holding 64 it
\* fails with ErrPermissionSpaceFull and the table is unchanged.
C7_CapacityIs64 ==
    [][(/\ pLast'.op = "CreatePermission"
        /\ SpaceFindByID(pLast'.a) # {}
        /\ ~PermCodeTaken(pLast'.b))
       => IF PermCount(pLast'.a) < MaxPositions
          THEN /\ pLast'.err = ErrNil
               /\ Cardinality(perms') = Cardinality(perms) + 1
               /\ \E p \in perms' \ perms : p.space = pLast'.a /\ p.code = pLast'.b
          ELSE /\ pLast'.err = ErrPermissionSpaceFull
               /\ perms' = perms]_vars

C7_Witness ==
    /\ pLast.op = "CreatePermission"
    /\ pLast.err = ErrPermissionSpaceFull
    /\ PermCount(pLast.a) = MaxPositions

\* C8: a new permission's position is larger than every position ever
\* assigned in its space, soft-deleted rows included, and a row keeps its
\* position when it is soft-deleted.
C8_PositionsNeverReused ==
    [][/\ \A p \in perms' \ perms :
             p.code \notin {q.code : q \in perms}
                => \A q \in perms : q.space = p.space => p.position > q.position
       /\ \A q \in perms \ perms' : \E r \in perms' \ perms :
             r.code = q.code /\ r.space = q.space /\ r.position = q.position]_vars

\* the row with the largest position was soft-deleted and a later row exists
C8_Witness ==
    \E p \in perms \ LivePerms : \E q \in LivePerms :
        /\ q.space = p.space
        /\ q.position = p.position + 1
        /\ \A r \in perms : r.space = p.space /\ r.position > p.position
                               => r.position >= q.position
        /\ pLast.op = "CreatePermission"
        /\ pLast.b = q.code

\* C9: every cache row of a (user, space) holds the OR of the values of the
\* links of that space reachable through the user's roles.
C9_CacheEqualsOrOfLinks ==
    \A row \in cache :
        /\ row.value = OrOfLinks(LinksOfUser(row.user), row.space)
        /\ \A other \in cache :
              (other.user = row.user /\ other.space = row.space) => other = row

C9_Witness ==
    /\ \E row \in cache : MaskValue(row.value) = 3
    /\ \E row \in cache : row.space = 2
    /\ Cardinality(RolesOfUser(1)) = 2
    /\ perms # LivePerms

\* some role assigned to the user is linked to the permission the code names
HasLinkTo(userID, code) ==
    \E p \in PermFindByCode(code) : \E rp \in LinksOfUser(userID) : rp.perm = p.code

\* the user's only role is role 1, linked to invoice.read (101) only
ViewerScenario(userID) ==
    /\ RolesOfUser(userID) = {1}
    /\ {rp.perm : rp \in LinksOfRole(1)} = {CodeFor(1, 1)}
    /\ LivePerms = perms

\* C10: a permission check answers true exactly when a role of the user is
\* linked to the permission named by the code; in the viewer scenario
\* invoice.read gives true, invoice.write gives false, and the cached
\* bitmask of the space is 1.
C10_HasPermissionIffLinked ==
    pLast.op \in {"HasPermission", "CheckerHasPermission"} =>
        /\ pLast.err = ErrNil
        /\ pLast.ret = HasLinkTo(pLast.a, pLast.b)
        /\ (ViewerScenario(pLast.a) /\ pLast.b \in {CodeFor(1, 1), CodeFor(1, 2)})
              => /\ pLast.ret = (pLast.b = CodeFor(1, 1))
                 /\ \E row \in CacheFind(cache, pLast.a, 1) : MaskValue(row.value) = 1

C10_Witness ==
    /\ pLast.op = "HasPermission"
    /\ ViewerScenario(pLast.a)
    /\ pLast.b = CodeFor(1, 2)
    /\ ~pLast.ret
    /\ \E row \in CacheFind(cache, pLast.a, 1) : MaskValue(row.value) = 1

\* the user holds a role that is linked to the live permission of the code
GrantedNow(userID, code) ==
    \E r \in RolesOfUser(userID) : \E p \in PermFindByCode(code) : LinkExists(r, p.code)

\* C11: a successful assignRoleToUser leaves no cache row of the user, an
\* addPermissionToRole that creates a link leaves none of any holder of the
\* role, and a check made while the assignment and the link are in place
\* answers true.
C11_TrueAfterAssignAndLink ==
    [][/\ (pLast'.op = "AssignRoleToUser" /\ pLast'.err = ErrNil)
             => \A row \in cache' : row.user # pLast'.a
       /\ (pLast'.op = "AddPermissionToRole" /\ rolePerms' # rolePerms)
             => \A row \in cache' : row.user \notin GetUserIDsByRoleID(pLast'.a)
       /\ (pLast'.op \in {"HasPermission", "CheckerHasPermission"}
             /\ GrantedNow(pLast'.a, pLast'.b))
             => (pLast'.err = ErrNil /\ pLast'.ret)]_vars

\* the check answers true through role 2 alone, linked to 102 alone
C11_Witness ==
    /\ pLast.op = "HasPermission"
    /\ pLast.ret
    /\ pLast.b = CodeFor(1, 2)
    /\ RolesOfUser(pLast.a) = {2}
    /\ {rp.perm : rp \in rolePerms} = {CodeFor(1, 2)}

(***************************************************************************)
(* The registry mutations one repository call at a time                   *)
(***************************************************************************)

Users2 == {1, 2}
Call(op, pc, a, b, uids) == [op |-> op, pc |-> pc, a |-> a, b |-> b, uids |-> uids]

\* what every step of a call leaves alone
StepFrame == UNCHANGED <<spaces, perms, userRoles, now, stats, path, calc, xVars, fcVars>>

\* mutant of RoleIsSystem: the flag is not looked at
RoleIsSystem_Never(id) == FALSE

\* role.IsSystem of the role FindByID returned
RoleIsSystem(id) == \E r \in RoleFindByID(id) : r.isSystem

\* DeleteRole: FindByID and the IsSystem check
DeleteRoleBegin(id) ==
    /\ call = Idle
    /\ IF RoleFindByID(id) = {}
       THEN /\ pLast' = PLast("DeleteRole", ErrRoleNotFound, id, 0, FALSE)
            /\ UNCHANGED call
       ELSE IF RoleIsSystem(id)
       THEN /\ pLast' = PLast("DeleteRole", ErrSystemRoleCannotBeDeleted, id, 0, FALSE)
            /\ UNCHANGED call
       ELSE /\ call' = Call("DeleteRole", "cache", id, 0, {})
            /\ UNCHANGED pLast
    /\ UNCHANGED <<roles, rolePerms, cache>>
    /\ StepFrame

\* DeleteRole: GetUserIDsByRoleID, then cacheRepo.DeleteByUserIDs
DeleteRoleInvalidate ==
    /\ call.op = "DeleteRole" /\ call.pc = "cache"
    /\ cache' = DeleteByUserIDs(cache, GetUserIDsByRoleID(call.a))
    /\ call' = [call EXCEPT !.pc = "links", !.uids = GetUserIDsByRoleID(call.a)]
    /\ UNCHANGED <<roles, rolePerms, pLast>>
    /\ StepFrame

\* DeleteRole: rolePermRepo.DeleteByRoleID
DeleteRoleLinks ==
    /\ call.op = "DeleteRole" /\ call.pc = "links"
    /\ rolePerms' = rolePerms \ LinksOfRole(call.a)
    /\ call' = [call EXCEPT !.pc = "role"]
    /\ UNCHANGED <<roles, cache, pLast>>
    /\ StepFrame

\* DeleteRole: roleRepo.Delete, and the return
DeleteRoleRow ==
    /\ call.op = "DeleteRole" /\ call.pc = "role"
    /\ roles' = {IF r.id = call.a THEN [r EXCEPT !.deleted = TRUE] ELSE r : r \in roles}
    /\ pLast' = PLast("DeleteRole", ErrNil, call.a, 0, FALSE)
    /\ call' = Idle
    /\ UNCHANGED <<rolePerms, cache>>
    /\ StepFrame

\* AddPermissionToRole: FindByID, FindByCode and Exists
AddPermissionBegin(roleID, code) ==
    /\ call = Idle
    /\ IF RoleFindByID(roleID) = {}
       THEN /\ pLast' = PLast("AddPermissionToRole", ErrRoleNotFound, roleID, code, FALSE)
            /\ UNCHANGED call
       ELSE IF PermFindByCode(code) = {}
       THEN /\ pLast' = PLast("AddPermissionToRole", ErrPermissionNotFound, roleID, code, FALSE)
            /\ UNCHANGED call
       ELSE IF LinkExists(roleID, code)
       THEN /\ pLast' = PLast("AddPermissionToRole", ErrNil, roleID, code, FALSE)
            /\ UNCHANGED call
       ELSE /\ call' = Call("AddPermissionToRole", "link", roleID, code, {})
            /\ UNCHANGED pLast
    /\ UNCHANGED <<roles, rolePerms, cache>>
    /\ StepFrame

\* AddPermissionToRole: rolePermRepo.Create
AddPermissionCreate ==
    /\ call.op = "AddPermissionToRole" /\ call.pc = "link"
    /\ \E p \in {x \in perms : x.code = call.b} :
          rolePerms' = rolePerms \cup
              {[role |-> call.a, perm |-> p.code, space |-> p.space, value |-> p.value]}
    /\ call' = [call EXCEPT !.pc = "clear"]
    /\ UNCHANGED <<roles, cache, pLast>>
    /\ StepFrame

\* RemovePermissionFromRole: FindByCode
RemovePermissionBegin(roleID, code) ==
    /\ call = Idle
    /\ IF PermFindByCode(code) = {}
       THEN /\ pLast' = PLast("RemovePermissionFromRole", ErrPermissionNotFound, roleID, code, FALSE)
            /\ UNCHANGED call
       ELSE /\ call' = Call("RemovePermissionFromRole", "link", roleID, code, {})
            /\ UNCHANGED pLast
    /\ UNCHANGED <<roles, rolePerms, cache>>
    /\ StepFrame

\* RemovePermissionFromRole: rolePermRepo.Delete, its error dropped
RemovePermissionDelete ==
    /\ call.op = "RemovePermissionFromRole" /\ call.pc = "link"
    /\ rolePerms' = {rp \in rolePerms : ~(rp.role = call.a /\ rp.perm = call.b)}
    /\ call' = [call EXCEPT !.pc = "clear"]
    /\ UNCHANGED <<roles, cache, pLast>>
    /\ StepFrame

\* mutant of HoldersOf: the users of the role are not found
HoldersOf_None(roleID) == {}

\* userRoleRepo.GetUserIDsByRoleID as clearCacheForRole calls it
HoldersOf(roleID) == GetUserIDsByRoleID(roleID)

\* the last step of both: clearCacheForRole, and the return
PermissionClear ==
    /\ call.op \in {"AddPermissionToRole", "RemovePermissionFromRole"}
    /\ call.pc = "clear"
    /\ cache' = DeleteByUserIDs(cache, HoldersOf(call.a))
    /\ pLast' = PLast(call.op, ErrNil, call.a, call.b, FALSE)
    /\ call' = [Idle EXCEPT !.uids = HoldersOf(call.a)]
    /\ UNCHANGED <<roles, rolePerms>>
    /\ StepFrame

\* The seeded database of PermInit with a system role "admin" linked to
\* 201, "viewer" linked to 101, user 1 holding "viewer" and user 2 "admin"
StepInit ==
    /\ FCIdle
    /\ spaces = {[id |-> 1, name |-> "billing"], [id |-> 2, name |-> "audit"]}
    /\ perms = {NewPermission(CodeFor(1, 1), 1, 0), NewPermission(CodeFor(1, 2), 1, 1),
                NewPermission(CodeFor(2, 1), 2, 0)}
    /\ roles = {[id |-> 1, name |-> "viewer", isSystem |-> FALSE, deleted |-> FALSE],
                [id |-> 2, name |-> "editor", isSystem |-> FALSE, deleted |-> FALSE],
                [id |-> 3, name |-> "admin", isSystem |-> TRUE, deleted |-> FALSE]}
    /\ userRoles = {<<1, 1>>, <<2, 3>>}
    /\ rolePerms = {[role |-> 1, perm |-> CodeFor(1, 1), space |-> 1, value |-> ShiftOne(0)],
                    [role |-> 3, perm |-> CodeFor(2, 1), space |-> 2, value |-> ShiftOne(0)]}
    /\ cache = {}
    /\ now = 1
    /\ pLast = PLast("New", ErrNil, 0, 0, FALSE)
    /\ NoCall

\* Registry calls run one after another, one repository call per step;
\* permission checks of other requests may fall between the steps.
StepNext ==
    \/ \E id \in RoleIDs : DeleteRoleBegin(id)
    \/ DeleteRoleInvalidate
    \/ DeleteRoleLinks
    \/ DeleteRoleRow
    \/ \E id \in {1, 4}, code \in {CodeFor(1, 1), CodeFor(1, 2), CodeFor(1, 3)} :
          AddPermissionBegin(id, code)
    \/ AddPermissionCreate
    \/ \E id \in {1, 4}, code \in {CodeFor(1, 1), CodeFor(1, 3)} :
          RemovePermissionBegin(id, code)
    \/ RemovePermissionDelete
    \/ PermissionClear
    \/ \E u \in Users2, code \in {CodeFor(1, 1), CodeFor(2, 1)} : HasPermission(u, code)

SpecSteps == StepInit /\ [][StepNext]_vars

\* C12: the step that ends an addPermissionToRole that created a link, or
\* a removePermissionFromRole, leaves no cache row of any user holding the
\* role, and runs when the link has already been created (deleted); the
\* step that changes the link deletes no cache row.
C12_InvalidateAfterLinkChange ==
    [][/\ (call.pc = "clear" /\ call'.pc = "idle")
             => /\ \A ur \in userRoles' :
                      ur[2] = call.a => \A row \in cache' : row.user # ur[1]
                /\ pLast'.err = ErrNil
                /\ (call.op = "AddPermissionToRole") =>
                      \E rp \in rolePerms : rp.role = call.a /\ rp.perm = call.b
                /\ (call.op = "RemovePermissionFromRole") =>
                      ~\E rp \in rolePerms : rp.role = call.a /\ rp.perm = call.b
       /\ (call.pc = "link" /\ call'.pc = "clear") => cache' = cache]_vars

\* an addPermissionToRole ended: the holder's rows are gone, the other
\* user's row is still there
C12_Witness ==
    /\ pLast.op = "AddPermissionToRole" /\ pLast.err = ErrNil
    /\ call.pc = "idle" /\ call.uids = {1}
    /\ LinkExists(1, CodeFor(1, 2))
    /\ \A row \in cache : row.user # 1
    /\ \E row \in cache : row.user = 2

\* C13: deleteRole invalidates the cache of the role's users only when the
\* role's links and the role itself are already gone.
C13_InvalidateAfterDelete ==
    [][(call.op = "DeleteRole" /\ call.pc = "cache" /\ call'.pc # "cache")
          => (LinksOfRole(call.a) = {} /\ RoleFindByID(call.a) = {})]_vars

\* the id names a live role with is_system = true
SystemRole(id) == \E r \in roles : r.id = id /\ r.isSystem /\ ~r.deleted

\* C14: deleteRole on a system role returns ErrSystemRoleCannotBeDeleted,
\* starts no deletion, and leaves the role, the Role-Permission links, the
\* User-Role links and the cache rows as they were.
C14_SystemRoleKept ==
    [][/\ (call.pc = "idle" /\ call'.pc = "idle" /\ pLast'.op = "DeleteRole"
             /\ SystemRole(pLast'.a))
             => /\ pLast'.err = ErrSystemRoleCannotBeDeleted
                /\ UNCHANGED <<roles, rolePerms, userRoles, cache>>
       /\ (call'.op = "DeleteRole") => ~SystemRole(call'.a)]_vars

\* the system role was refused while its holder had a cached row
C14_Witness ==
    /\ pLast.op = "DeleteRole" /\ pLast.err = ErrSystemRoleCannotBeDeleted
    /\ SystemRole(pLast.a)
    /\ LinksOfRole(pLast.a) # {}
    /\ \E u \in GetUserIDsByRoleID(pLast.a) : \E row \in cache : row.user = u

(***************************************************************************)
(* The permission checks with a moving clock and a failing store           *)
(***************************************************************************)

\* Bounds: the clock stops at MaxNow, the counters at MaxChecks
MaxNow == 3
MaxChecks == 2

\* the repository call of a check that returns a store error, if any
ManagerFaults == {"none", "FindByCode", "FindByUserAndSpace", "DeleteByUserID",
                  "FindByUserID", "FindByRoleID", "Upsert", "Refetch"}
CheckerFaults == {"none", "FindByCode", "FindByUserAndSpace",
                  "FindByUserID", "FindByRoleID", "Upsert"}

Outcome(err, ret, C, taken) == [err |-> err, ret |-> ret, cache |-> C, taken |-> taken]

\* the rows CalculateUserPermissions aggregates when FindByRoleID fails:
\* the manager drops the error, the checker skips the role
LinksRead(userID, fault) ==
    IF fault = "FindByRoleID" THEN {} ELSE LinksOfUser(userID)

RowsOf(links, userID, expiresAt) ==
    {[user |-> userID, space |-> sid, value |-> OrOfLinks(links, sid),
      expiresAt |-> expiresAt] : sid \in SpacesOfLinks(links)}

\* BitPermissionManager.CalculateUserPermissions with the errors it drops
ManagerRecompute(C, userID, fault) ==
    LET C1 == IF fault = "DeleteByUserID" THEN C ELSE DeleteByUserIDs(C, {userID})
    IN  IF fault = "FindByUserID" THEN [err |-> ErrBackend, cache |-> C1]
        ELSE IF fault = "Upsert" THEN [err |-> ErrNil, cache |-> C1]
        ELSE [err |-> ErrNil,
              cache |-> UpsertAll(C1, RowsOf(LinksRead(userID, fault), userID, ZeroTime))]

\* BitPermissionManager.HasPermission
ManagerOutcome(userID, code, fault) ==
    IF fault = "FindByCode" THEN Outcome(ErrBackend, FALSE, cache, "error")
    ELSE IF PermFindByCode(code) = {} THEN Outcome(ErrNil, FALSE, cache, "absent")
    ELSE IF fault = "FindByUserAndSpace" THEN Outcome(ErrBackend, FALSE, cache, "error")
    ELSE LET p == CHOOSE x \in PermFindByCode(code) : TRUE
             hit == CacheFind(cache, userID, p.space)
         IN  IF hit # {}
             THEN Outcome(ErrNil, MaskHas((CHOOSE x \in hit : TRUE).value, p.value),
                          cache, "hit")
             ELSE LET rc == ManagerRecompute(cache, userID, fault)
                      row == IF fault = "Refetch" THEN {}
                             ELSE CacheFind(rc.cache, userID, p.space)
                  IN  IF rc.err # ErrNil
                      THEN Outcome(rc.err, FALSE, rc.cache, "recompute")
                      ELSE Outcome(ErrNil,
                               IF row = {} THEN FALSE
                               ELSE MaskHas((CHOOSE x \in row : TRUE).value, p.value),
                               rc.cache, "recompute")

ManagerCheck(userID, code, fault) ==
    LET o == ManagerOutcome(userID, code, fault)
    IN  /\ cache' = o.cache
        /\ pLast' = PLast("HasPermission", o.err, userID, code, o.ret)
        /\ path' = [taken |-> o.taken, fault |-> fault]
        /\ UNCHANGED <<spaces, perms, roles, userRoles, rolePerms, now, stats, call, calc, xVars, fcVars>>

\* mutant of StatsAfter: an absent code is counted as a miss
StatsAfter_CountAbsent(st, taken) ==
    IF taken = "hit" THEN [st EXCEPT !.hits = @ + 1]
    ELSE IF taken \in {"recompute", "absent"} THEN [st EXCEPT !.misses = @ + 1]
    ELSE st

\* PermissionCache.Get: atomic.AddInt64 on Hits or Misses
StatsAfter(st, taken) ==
    IF taken = "hit" THEN [st EXCEPT !.hits = @ + 1]
    ELSE IF taken = "recompute" THEN [st EXCEPT !.misses = @ + 1]
    ELSE st

\* PermissionChecker.HasPermission over PermissionCache
CheckerOutcome(userID, code, fault) ==
    IF fault = "FindByCode" THEN Outcome(ErrNil, FALSE, cache, "error")
    ELSE IF PermFindByCode(code) = {} THEN Outcome(ErrNil, FALSE, cache, "absent")
    ELSE IF fault = "FindByUserAndSpace" THEN Outcome(ErrBackend, FALSE, cache, "error")
    ELSE LET p == CHOOSE x \in PermFindByCode(code) : TRUE
             hit == PermissionCacheGet(cache, userID, p.space)
             links == LinksRead(userID, fault)
         IN  IF hit # {}
             THEN Outcome(ErrNil, MaskHas((CHOOSE x \in hit : TRUE).value, p.value),
                          cache, "hit")
             ELSE IF fault \in {"FindByUserID", "Upsert"}
             THEN Outcome(ErrBackend, FALSE, cache, "recompute")
             ELSE Outcome(ErrNil,
                      IF p.space \notin SpacesOfLinks(links) THEN FALSE
                      ELSE MaskHas(OrOfLinks(links, p.space), p.value),
                      UpsertAll(cache, RowsOf(links, userID, now + PermCacheTTL)),
                      "recompute")

CheckerCheck(userID, code, fault) ==
    LET o == CheckerOutcome(userID, code, fault)
    IN  /\ stats.hits + stats.misses < MaxChecks
        /\ cache' = o.cache
        /\ stats' = StatsAfter(stats, o.taken)
        /\ pLast' = PLast("CheckerHasPermission", o.err, userID, code, o.ret)
        /\ path' = [taken |-> o.taken, fault |-> fault]
        /\ UNCHANGED <<spaces, perms, roles, userRoles, rolePerms, now, call, calc, xVars, fcVars>>

\* time passes
Tick ==
    /\ now < MaxNow
    /\ now' = now + 1
    /\ UNCHANGED <<spaces, perms, roles, userRoles, rolePerms, cache, pLast, sVars, fcVars>>

TimeCodes == {CodeFor(1, 1), CodeFor(1, 2), CodeFor(2, 1), CodeFor(1, 3)}

\* Checks by both evaluators on the seeded database of StepInit while time
\* passes; user 1 gains and loses the admin role, permission 102 is deleted.
TimeNext ==
    \/ \E u \in Users, code \in TimeCodes, f \in ManagerFaults : ManagerCheck(u, code, f)
    \/ \E u \in Users, code \in TimeCodes, f \in CheckerFaults : CheckerCheck(u, code, f)
    \/ Tick
    \/ AssignRoleToUser(1, 3)
    \/ RemoveRoleFromUser(1, 3)
    \/ DeletePermission(CodeFor(1, 2))

SpecTime == StepInit /\ [][TimeNext]_vars

\* a step that is a permission check
CheckStep == pLast'.op \in {"HasPermission", "CheckerHasPermission"} /\ now' = now

\* the rows of (user, space of the code) whose expiry has not passed
FreshRows(C, userID, code) ==
    {row \in C : /\ row.user = userID
                 /\ \E p \in PermFindByCode(code) : p.space = row.space
                 /\ ~(row.expiresAt < now)}

\* C15: a check of a resolvable code answers from the cached row exactly
\* when a row with an expiry that has not passed exists, and recomputes
\* exactly when the row is absent or expired.
C15_ExpiredRowNeverUsed ==
    [][(CheckStep /\ path'.fault = "none" /\ PermFindByCode(pLast'.b) # {})
          => /\ path'.taken \in {"hit", "recompute"}
             /\ (path'.taken = "hit") <=> (FreshRows(cache, pLast'.a, pLast'.b) # {})]_vars

\* C16: a check by the PermissionChecker that recomputes leaves the row of
\* (user, space) with the expiry now + TTL.
C16_FreshExpiryAfterRecompute ==
    [][(CheckStep /\ pLast'.op = "CheckerHasPermission" /\ path'.fault = "none"
          /\ path'.taken = "recompute")
          => \A row \in cache' :
                (row.user = pLast'.a /\ \E p \in PermFindByCode(pLast'.b) : p.space = row.space)
                   => row.expiresAt = now + PermCacheTTL]_vars

\* C18: a check of a code that names no permission answers false without
\* error and leaves the cache rows and the hit/miss counters as they were.
C18_AbsentCodeIsFalse ==
    [][(CheckStep /\ path'.fault = "none" /\ PermFindByCode(pLast'.b) = {})
          => /\ pLast'.err = ErrNil /\ ~pLast'.ret
             /\ path'.taken = "absent"
             /\ cache' = cache
             /\ stats' = stats]_vars

\* an absent code was checked by the PermissionChecker after a miss was
\* counted and a row was cached
C18_Witness ==
    /\ pLast.op = "CheckerHasPermission"
    /\ path = [taken |-> "absent", fault |-> "none"]
    /\ pLast.b = CodeFor(1, 3)
    /\ stats.misses = 1
    /\ cache # {}

\* the failing repository call was reached by the last check
FaultReached ==
    \/ path.fault = "FindByCode"
    \/ path.fault = "FindByUserAndSpace" /\ path.taken = "error"
    \/ path.fault \in {"DeleteByUserID", "FindByUserID", "Refetch"} /\ path.taken = "recompute"
    \/ path.fault = "FindByRoleID" /\ path.taken = "recompute" /\ RolesOfUser(pLast.a) # {}
    \/ path.fault = "Upsert" /\ path.taken = "recompute" /\ LinksOfUser(pLast.a) # {}

\* C19: a check in which a repository call returned a store error returns
\* an error, never (false, no error).
C19_StoreErrorSurfaces ==
    (pLast.op \in {"HasPermission", "CheckerHasPermission"} /\ FaultReached)
        => pLast.err # ErrNil

(***************************************************************************)
(* The aggregation loop of CalculateUserPermissions, element by element    *)
(***************************************************************************)

\* Bound: the longest list of roles the loop is run over
MaxRoleSeq == 3

\* mutant of OrInto: the entry is overwritten
OrInto_Assign(sv, sid, value) ==
    IF sid \in DOMAIN sv THEN [sv EXCEPT ![sid] = value] ELSE sv @@ (sid :> value)

\* sv[rp.SpaceID] |= rp.Value on a Go map: a missing key reads as 0
OrInto(sv, sid, value) ==
    IF sid \in DOMAIN sv THEN [sv EXCEPT ![sid] = BitOr(@, value)]
    ELSE sv @@ (sid :> BitOr({}, value))

\* the rows of a role in the order the query returns them
RECURSIVE LinkList(_, _)
LinkList(links, dir) ==
    IF links = {} THEN <<>>
    ELSE LET x == CHOOSE l \in links : \A m \in links :
                     IF dir = "asc" THEN l.perm <= m.perm ELSE l.perm >= m.perm
         IN  <<x>> \o LinkList(links \ {x}, dir)

\* for _, rp := range rps
RECURSIVE OverLinks(_, _)
OverLinks(sv, rps) ==
    IF rps = <<>> THEN sv
    ELSE OverLinks(OrInto(sv, Head(rps).space, Head(rps).value), Tail(rps))

\* for _, ur := range urs
RECURSIVE OverRoles(_, _, _)
OverRoles(sv, urs, dir) ==
    IF urs = <<>> THEN sv
    ELSE OverRoles(OverLinks(sv, LinkList(LinksOfRole(Head(urs)), dir)), Tail(urs), dir)

\* the lists of at most MaxRoleSeq roles that name every role of the set
\* at least once
RoleLists(rs) ==
    UNION {{q \in [1..n -> rs] : {q[i] : i \in 1..n} = rs} : n \in 0..MaxRoleSeq}

\* the aggregation of a user's roles read in the order urs
Aggregate(userID, urs, dir) ==
    /\ calc' = [roles |-> urs, dir |-> dir, sv |-> OverRoles(<<>>, urs, dir)]
    /\ UNCHANGED <<pVars, stats, call, path, xVars, fcVars>>

\* Links and assignments change; the user's roles are aggregated in every
\* order, with repetitions, and with the links of a role read both ways.
CalcNext ==
    \/ \E id \in {1, 2}, code \in SeedCodes : AddPermissionToRole(id, code)
    \/ \E id \in {1, 2} : AssignRoleToUser(1, id)
    \/ \E urs \in RoleLists(RolesOfUser(1)), dir \in {"asc", "desc"} : Aggregate(1, urs, dir)

SpecCalc == PermInit /\ [][CalcNext]_vars

\* C17: whatever the order of the roles and of each role's links, and
\* however often a role is repeated, the map built has one entry per space
\* with a link, holding the OR of the links of that space.
C17_OrderIndependent ==
    [][(calc' # calc) =>
          LET links == {rp \in rolePerms :
                           rp.role \in {calc'.roles[i] : i \in DOMAIN calc'.roles}}
          IN  /\ DOMAIN calc'.sv = SpacesOfLinks(links)
              /\ \A sid \in DOMAIN calc'.sv : calc'.sv[sid] = OrOfLinks(links, sid)]_vars

\* two roles, one of them read twice, with links in both spaces and a
\* space both roles have links in
C17_Witness ==
    /\ Len(calc.roles) = 3
    /\ {calc.roles[i] : i \in DOMAIN calc.roles} = {1, 2}
    /\ calc.dir = "desc"
    /\ DOMAIN calc.sv = {1, 2}
    /\ MaskValue(calc.sv[1]) = 3
    /\ \E a, b \in rolePerms : a.role # b.role /\ a.space = b.space /\ a.perm # b.perm

\* Two users gain and lose roles and are checked; role 2 can be deleted
\* while held.
UsersNext ==
    \/ \E u \in Users2, id \in RoleIDs : AssignRoleToUser(u, id)
    \/ \E u \in Users2, id \in RoleIDs : RemoveRoleFromUser(u, id)
    \/ \E u \in Users2, code \in {CodeFor(1, 1), CodeFor(2, 1)} : HasPermission(u, code)
    \/ DeleteRole(2)

SpecUsers == StepInit /\ [][UsersNext]_vars

MaxBatch == 2

\* the duplicate-key error of the unique index uk_role_permission
ErrDuplicatedKey == "ErrDuplicatedKey"

\* the tables a mutation has written so far, the error it is about to
\* return, and whether a cache invalidation of it has failed
Progress(RP, UR, R, C, err, failed) ==
    [rolePerms |-> RP, userRoles |-> UR, roles |-> R, cache |-> C,
     err |-> err, failed |-> failed]
Started == Progress(rolePerms, userRoles, roles, cache, ErrNil, FALSE)

\* mutant of RolePermExists: the link is never found
RolePermExists_Never(RP, roleID, perm) == FALSE

\* RolePermissionRepository.Exists: COUNT(*) > 0 over (role_id, permission_id)
RolePermExists(RP, roleID, perm) ==
    Cardinality({rp \in RP : rp.role = roleID /\ rp.perm = perm}) > 0

\* RolePermissionRepository.Create: the INSERT fails on a pair already there
RolePermCreate(RP, row) ==
    IF \E rp \in RP : rp.role = row.role /\ rp.perm = row.perm
    THEN [err |-> ErrDuplicatedKey, rows |-> RP]
    ELSE [err |-> ErrNil, rows |-> RP \cup {row}]

\* cacheRepo.DeleteByUserIDs / DeleteByUserID on a store that fails on demand
StoreDelete(C, uids, fail) ==
    IF fail THEN [err |-> ErrBackend, cache |-> C]
    ELSE [err |-> ErrNil, cache |-> DeleteByUserIDs(C, uids)]

\* clearCacheForRole: the store is called only for a role somebody holds
ClearForRole(S, roleID, fail) ==
    LET uids == {ur[1] : ur \in {x \in S.userRoles : x[2] = roleID}}
        d == StoreDelete(S.cache, uids, fail)
    IN  IF uids = {} THEN S
        ELSE [S EXCEPT !.cache = d.cache, !.err = d.err, !.failed = IsErr(d)]

\* BitPermissionManager.AddPermissionToRole
AddOne(S, roleID, code, fail) ==
    IF {r \in S.roles : r.id = roleID /\ ~r.deleted} = {}
    THEN [S EXCEPT !.err = ErrRoleNotFound]
    ELSE IF PermFindByCode(code) = {} THEN [S EXCEPT !.err = ErrPermissionNotFound]
    ELSE IF RolePermExists(S.rolePerms, roleID, code) THEN S
    ELSE LET p == CHOOSE x \in PermFindByCode(code) : TRUE
             cr == RolePermCreate(S.rolePerms,
                       [role |-> roleID, perm |-> p.code, space |-> p.space,
                        value |-> p.value])
         IN  IF IsErr(cr) THEN [S EXCEPT !.err = cr.err]
             ELSE ClearForRole([S EXCEPT !.rolePerms = cr.rows], roleID, fail)

\* BitPermissionManager.RemovePermissionFromRole
RemoveOne(S, roleID, code, fail) ==
    IF PermFindByCode(code) = {} THEN [S EXCEPT !.err = ErrPermissionNotFound]
    ELSE ClearForRole(
             [S EXCEPT !.rolePerms =
                 {rp \in S.rolePerms : ~(rp.role = roleID /\ rp.perm = code)}],
             roleID, fail)

\* AddPermissionsToRole: for _, c := range codes, return on the first error
RECURSIVE AddMany(_, _, _, _)
AddMany(S, roleID, codes, fails) ==
    IF codes = <<>> THEN S
    ELSE LET r == AddOne(S, roleID, Head(codes), Head(fails))
         IN  IF r.err # ErrNil THEN r
             ELSE AddMany(r, roleID, Tail(codes), Tail(fails))

\* RemovePermissionsFromRole: the same loop over RemovePermissionFromRole
RECURSIVE RemoveMany(_, _, _, _)
RemoveMany(S, roleID, codes, fails) ==
    IF codes = <<>> THEN S
    ELSE LET r == RemoveOne(S, roleID, Head(codes), Head(fails))
         IN  IF r.err # ErrNil THEN r
             ELSE RemoveMany(r, roleID, Tail(codes), Tail(fails))

\* BitPermissionManager.AssignRoleToUser
AssignOne(S, userID, roleID, fail) ==
    IF RoleFindByID(roleID) = {} THEN [S EXCEPT !.err = ErrRoleNotFound]
    ELSE IF <<userID, roleID>> \in S.userRoles
    THEN [S EXCEPT !.err = ErrUserRoleAlreadyExists]
    ELSE LET d == StoreDelete(S.cache, {userID}, fail)
         IN  [S EXCEPT !.userRoles = @ \cup {<<userID, roleID>>},
                       !.cache = d.cache, !.err = d.err, !.failed = IsErr(d)]

\* BitPermissionManager.RemoveRoleFromUser
UnassignOne(S, userID, roleID, fail) ==
    IF <<userID, roleID>> \notin S.userRoles
    THEN [S EXCEPT !.err = ErrUserRoleNotFound]
    ELSE LET d == StoreDelete(S.cache, {userID}, fail)
         IN  [S EXCEPT !.userRoles = @ \ {<<userID, roleID>>},
                       !.cache = d.cache, !.err = d.err, !.failed = IsErr(d)]

\* BitPermissionManager.DeleteRole: the error of DeleteByUserIDs is dropped
DeleteRoleOne(S, id, fail) ==
    IF RoleFindByID(id) = {} THEN [S EXCEPT !.err = ErrRoleNotFound]
    ELSE IF RoleIsSystem(id) THEN [S EXCEPT !.err = ErrSystemRoleCannotBeDeleted]
    ELSE LET uids == {ur[1] : ur \in {x \in S.userRoles : x[2] = id}}
             d == StoreDelete(S.cache, uids, fail)
         IN  [S EXCEPT !.cache = IF uids = {} THEN @ ELSE d.cache,
                       !.failed = uids # {} /\ IsErr(d),
                       !.rolePerms = {rp \in @ : rp.role # id},
                       !.roles = {IF r.id = id THEN [r EXCEPT !.deleted = TRUE]
                                  ELSE r : r \in @}]

\* a mutation carried out: the tables it leaves and the record of the call
Mutation(op, a, codes, r) ==
    /\ rolePerms' = r.rolePerms
    /\ userRoles' = r.userRoles
    /\ roles' = r.roles
    /\ cache' = r.cache
    /\ mut' = [op |-> op, a |-> a, codes |-> codes, failed |-> r.failed,
               err |-> r.err]
    /\ pLast' = PLast(op, r.err, a, 0, FALSE)
    /\ UNCHANGED <<spaces, perms, now, stats, call, path, calc, mc, mcLast,
                   wired, fcc, rpc, rpcLast, gor, hist, fcVars>>

\* the lists of at most MaxBatch codes, and the outcomes of the
\* invalidations of a call, one per code
CodeLists(codes) == UNION {[1..n -> codes] : n \in 1..MaxBatch}
FailLists(n) == [1..n -> BOOLEAN]

MutCodes == {CodeFor(1, 2), CodeFor(2, 1)}

\* Mutations of roles 1 and 2 and of user 1 on the seeded database of
\* StepInit, every invalidation free to fail; user 1 checks a permission in
\* between, which fills the cache.
MutNext ==
    \/ \E id \in {1, 2}, code \in MutCodes, f \in BOOLEAN :
          Mutation("AddPermissionToRole", id, <<code>>, AddOne(Started, id, code, f))
    \/ \E cs \in CodeLists(MutCodes) : \E fs \in FailLists(Len(cs)) :
          Mutation("AddPermissionsToRole", 1, cs, AddMany(Started, 1, cs, fs))
    \/ \E code \in MutCodes, f \in BOOLEAN :
          Mutation("RemovePermissionFromRole", 1, <<code>>,
                   RemoveOne(Started, 1, code, f))
    \/ \E cs \in CodeLists(MutCodes) : \E fs \in FailLists(Len(cs)) :
          Mutation("RemovePermissionsFromRole", 1, cs,
                   RemoveMany(Started, 1, cs, fs))
    \/ \E f \in BOOLEAN :
          Mutation("AssignRoleToUser", 2, <<>>, AssignOne(Started, 1, 2, f))
    \/ \E f \in BOOLEAN :
          Mutation("RemoveRoleFromUser", 2, <<>>, UnassignOne(Started, 1, 2, f))
    \/ \E f \in BOOLEAN :
          Mutation("DeleteRole", 2, <<>>, DeleteRoleOne(Started, 2, f))
    \/ HasPermission(1, CodeFor(1, 1))

SpecMut == StepInit /\ [][MutNext]_vars

\* C21: addPermissionToRole called for a live role and permission whose
\* link is already there returns no error and leaves the link table as it
\* was; a batch naming the same code twice, its invalidations succeeding,
\* returns no error and leaves exactly the table one call leaves.
C21_AddIsIdempotent ==
    [][/\ (/\ mut' # mut
           /\ mut'.op = "AddPermissionToRole"
           /\ \E r \in roles : r.id = mut'.a /\ ~r.deleted
           /\ \E p \in perms : p.code = mut'.codes[1] /\ ~p.deleted
           /\ \E rp \in rolePerms : rp.role = mut'.a /\ rp.perm = mut'.codes[1])
          => (mut'.err = ErrNil /\ rolePerms' = rolePerms)
       /\ (/\ mut' # mut
           /\ mut'.op = "AddPermissionsToRole"
           /\ Len(mut'.codes) = 2
           /\ mut'.codes[1] = mut'.codes[2]
           /\ ~mut'.failed)
          => /\ mut'.err = ErrNil
             /\ \E p \in perms :
                   /\ p.code = mut'.codes[1]
                   /\ rolePerms' = rolePerms \cup
                         {[role |-> mut'.a, perm |-> p.code, space |-> p.space,
                           value |-> p.value]}]_vars

\* the same code twice in one batch: the second call found the link
C21_Witness ==
    /\ mut.op = "AddPermissionsToRole"
    /\ mut.codes = <<CodeFor(1, 2), CodeFor(1, 2)>>
    /\ mut.err = ErrNil
    /\ Cardinality({rp \in rolePerms : rp.role = 1 /\ rp.perm = CodeFor(1, 2)}) = 1

\* C22: a mutation one of whose cache invalidations failed has still made
\* its change: every code of an add is linked to the role, every code of a
\* remove is unlinked, the assignment is there (gone), the role and its
\* links are deleted.
C22_InvalidationFailureKeepsMutation ==
    mut.failed =>
       CASE mut.op \in {"AddPermissionToRole", "AddPermissionsToRole"} ->
               \A i \in DOMAIN mut.codes :
                  \E rp \in rolePerms : rp.role = mut.a /\ rp.perm = mut.codes[i]
         [] mut.op \in {"RemovePermissionFromRole", "RemovePermissionsFromRole"} ->
               \A i \in DOMAIN mut.codes :
                  ~\E rp \in rolePerms : rp.role = mut.a /\ rp.perm = mut.codes[i]
         [] mut.op = "AssignRoleToUser" -> <<1, mut.a>> \in userRoles
         [] mut.op = "RemoveRoleFromUser" -> <<1, mut.a>> \notin userRoles
         [] mut.op = "DeleteRole" ->
               /\ ~\E r \in roles : r.id = mut.a /\ ~r.deleted
               /\ ~\E rp \in rolePerms : rp.role = mut.a

(***************************************************************************)
(* The in-process cache (MemoryCache)                                      *)
(***************************************************************************)

ErrCacheUnavailable == "ErrCacheUnavailable"
\* panic: close of closed channel
ErrPanic == "panic"

\* the ttl arguments of the in-process cache, in clock ticks
MemTTLs == {0, 1, 2}

Item(v, expiresAt) == [value |-> v, expiresAt |-> expiresAt]

\* mutant of isExpired: an entry never expires
isExpired_Never(item, t) == FALSE

\* cacheItem.isExpired at time t: time.Now().After(i.expiresAt)
isExpired(item, t) ==
    IF item.expiresAt = ZeroTime THEN FALSE ELSE t > item.expiresAt

\* mutant of ExpiryFor: a zero ttl is not special
ExpiryFor_NoZero(ttl, t) == t + ttl

\* the expiresAt Set gives an item: time.Now().Add(ttl) if ttl > 0
ExpiryFor(ttl, t) == IF ttl > 0 THEN t + ttl ELSE ZeroTime

MemResult(res, M, loaded) == [res |-> res, mc |-> M, loaded |-> loaded]

\* mutant of MemIncr: the counter is stored anew by every call
MemIncr_Restart(M, k) ==
    MemResult(Result(ErrNil, 1), [M EXCEPT !.counters[k] = 1], FALSE)

\* MemoryCache.Incr: LoadOrStore, then Add(1) if loaded, else Store(1)
MemIncr(M, k) ==
    IF M.counters[k] # 0
    THEN MemResult(Result(ErrNil, M.counters[k] + 1),
                   [M EXCEPT !.counters[k] = @ + 1], TRUE)
    ELSE MemResult(Result(ErrNil, 1), [M EXCEPT !.counters[k] = 1], FALSE)

\* One call on the MemoryCache M at time t: its result, the cache after it,
\* and whether data.Load / counters.LoadOrStore found the key
MemCall(op, k, v, ttl, M, t) ==
    CASE op = "Get" ->
            IF M.data[k] = {} THEN MemResult(Result(ErrKeyNotFound, 0), M, FALSE)
            ELSE LET item == CHOOSE x \in M.data[k] : TRUE
                 IN  IF isExpired(item, t)
                     THEN MemResult(Result(ErrKeyNotFound, 0),
                                    [M EXCEPT !.data[k] = {}], TRUE)
                     ELSE MemResult(Result(ErrNil, item.value), M, TRUE)
      [] op = "Set" ->
            MemResult(Result(ErrNil, 0),
                      [M EXCEPT !.data[k] = {Item(v, ExpiryFor(ttl, t))}], FALSE)
      [] op = "Delete" ->
            MemResult(Result(ErrNil, 0), [M EXCEPT !.data[k] = {}], FALSE)
      [] op = "DeleteByPrefix" ->
            MemResult(Result(ErrNil, 0),
                      [M EXCEPT !.data = [x \in MemKeys |->
                           IF HasPrefix(x, k) THEN {} ELSE M.data[x]]], FALSE)
      [] op = "Exists" ->
            IF M.data[k] = {} THEN MemResult(Result(ErrNil, BoolVal(FALSE)), M, FALSE)
            ELSE LET item == CHOOSE x \in M.data[k] : TRUE
                 IN  IF isExpired(item, t)
                     THEN MemResult(Result(ErrNil, BoolVal(FALSE)),
                                    [M EXCEPT !.data[k] = {}], TRUE)
                     ELSE MemResult(Result(ErrNil, BoolVal(TRUE)), M, TRUE)
      [] op = "Incr" -> MemIncr(M, k)
      [] op = "IncrWithExpire" ->
            LET r == MemIncr(M, k)
            IN  MemResult(r.res,
                          [r.mc EXCEPT !.data[ExpKey(k)] = {Item(None, t + ttl)}],
                          r.loaded)
      [] op = "Ping" ->
            MemResult(IF M.available THEN Result(ErrNil, 0)
                      ELSE Result(ErrCacheUnavailable, 0), M, FALSE)
      [] op = "IsAvailable" ->
            MemResult(Result(ErrNil, BoolVal(M.available)), M, FALSE)
      [] op = "Close" ->
            IF M.stopCh = "closed" THEN MemResult(Result(ErrPanic, 0), M, FALSE)
            ELSE MemResult(Result(ErrNil, 0),
                           [M EXCEPT !.stopCh = "closed", !.available = FALSE], FALSE)

\* what the calls on the in-process cache leave alone
MemFrame == UNCHANGED <<pVars, stats, call, path, calc, mut, wired, fcc, rpc,
                        rpcLast, gor, hist, fcVars>>

\* a call made directly on the MemoryCache the container wired
Mem(op, k, v, ttl) ==
    LET r == MemCall(op, k, v, ttl, mc, now)
    IN  /\ wired = "memory"
        /\ mc' = r.mc
        /\ mcLast' = [op |-> op, key |-> k, val |-> v, ttl |-> ttl,
                      now |-> IF op = "Set" THEN now ELSE 0,
                      loaded |-> r.loaded, res |-> r.res]
        /\ MemFrame

\* cleanupLoop takes a tick of its ticker: cleanup
MemCleanup ==
    /\ wired = "memory"
    /\ mc.loop = "running"
    /\ mc' = [mc EXCEPT !.data = [k \in MemKeys |->
                  {item \in mc.data[k] : ~isExpired(item, now)}]]
    /\ UNCHANGED mcLast
    /\ MemFrame

\* cleanupLoop receives from the closed stopCh and returns
MemLoopReturn ==
    /\ wired = "memory"
    /\ mc.loop = "running"
    /\ mc.stopCh = "closed"
    /\ mc' = [mc EXCEPT !.loop = "returned"]
    /\ UNCHANGED mcLast
    /\ MemFrame

\* time passes for the in-process cache
MemTick == wired = "memory" /\ Tick

\* Container.CacheBackend: the MemoryCache alone when Redis is not enabled,
\* else the orchestrator over both
Wirings == {"memory", "fallback"}

MemInit ==
    /\ spaces = {}
    /\ perms = {}
    /\ roles = {}
    /\ userRoles = {}
    /\ rolePerms = {}
    /\ cache = {}
    /\ now = 1
    /\ pLast = PLast("New", ErrNil, 0, 0, FALSE)
    /\ Unwired
    /\ wired \in Wirings
    /\ IF wired = "memory" THEN FCIdle ELSE FCStart

\* The data calls of the wired backend while time passes and the sweep
\* runs: on the MemoryCache itself, or through the orchestrator while the
\* backends fail and recover.
MemNext ==
    \/ \E k \in MemKeys : Mem("Get", k, 0, 0)
    \/ \E k \in MemKeys, v \in Values, t \in MemTTLs : Mem("Set", k, v, t)
    \/ \E k \in MemKeys : Mem("Delete", k, 0, 0)
    \/ \E p \in Keys : Mem("DeleteByPrefix", p, 0, 0)
    \/ \E k \in MemKeys : Mem("Exists", k, 0, 0)
    \/ \E k \in CounterKeys, t \in MemTTLs :
          mc.counters[k] < MaxCount /\ Mem("IncrWithExpire", k, 0, t)
    \/ MemCleanup
    \/ MemTick
    \/ \E k \in Keys : wired = "fallback" /\ Get(k)
    \/ \E k \in Keys, v \in Values, t \in TTLs : wired = "fallback" /\ Set(k, v, t)
    \/ \E k \in Keys : wired = "fallback" /\ Delete(k)
    \/ wired = "fallback" /\ HealthCheckTick
    \/ \E b \in Backends : wired = "fallback" /\ BackendFlip(b)

SpecMem == MemInit /\ [][MemNext]_vars

\* C23: on the in-process cache a get that follows a set of the same key,
\* made before the ttl has elapsed (or after a set without ttl), returns the
\* value set, and a get that follows a delete of the key returns
\* ErrKeyNotFound; through the orchestrator, with both backends reachable
\* and the get entered in the mode the set or delete left, a get that
\* follows a successful set returns the value set and a get that follows a
\* successful delete returns ErrKeyNotFound.
C23_RoundTrip ==
    [][/\ (/\ mcLast.op = "Set" /\ mcLast'.op = "Get"
           /\ mcLast'.key = mcLast.key
           /\ (mcLast.ttl = 0 \/ now' < mcLast.now + mcLast.ttl))
          => mcLast'.res = Result(ErrNil, mcLast.val)
       /\ (/\ mcLast.op = "Delete" /\ mcLast'.op = "Get"
           /\ mcLast'.key = mcLast.key)
          => mcLast'.res.err = ErrKeyNotFound
       /\ (/\ fcLast.op = "Set" /\ ~IsErr(fcLast.res)
           /\ fcLast'.op = "Get" /\ fcLast'.arg[1] = fcLast.arg[1]
           /\ fcLast'.mode0 = mode
           /\ \A b \in Backends : up[b])
          => fcLast'.res = Result(ErrNil, fcLast.arg[2])
       /\ (/\ fcLast.op = "Delete" /\ ~IsErr(fcLast.res)
           /\ fcLast'.op = "Get" /\ fcLast'.arg[1] = fcLast.arg[1]
           /\ fcLast'.mode0 = mode
           /\ \A b \in Backends : up[b])
          => fcLast'.res.err = ErrKeyNotFound]_vars

\* C24: a get or exists that finds an entry whose expiresAt lies in the past
\* answers ErrKeyNotFound / false and leaves no entry under the key, swept
\* or not; a get that returns a value found an entry holding that value
\* whose expiresAt is zero or not yet passed.
C24_LazyExpiry ==
    [][/\ \A k \in MemKeys :
            (/\ mcLast' # mcLast
             /\ mcLast'.op \in {"Get", "Exists"}
             /\ mcLast'.key = k
             /\ \E item \in mc.data[k] :
                   item.expiresAt # ZeroTime /\ now > item.expiresAt)
            => /\ mcLast'.res = IF mcLast'.op = "Get"
                                THEN Result(ErrKeyNotFound, 0)
                                ELSE Result(ErrNil, BoolVal(FALSE))
               /\ mc'.data[k] = {}
       /\ (/\ mcLast' # mcLast
           /\ mcLast'.op = "Get"
           /\ mcLast'.res.err = ErrNil)
          => \E item \in mc.data[mcLast'.key] :
                /\ item.value = mcLast'.res.val
                /\ (item.expiresAt = ZeroTime \/ now <= item.expiresAt)]_vars

\* an expired entry the sweep had not removed was found by a get, which
\* removed it
C24_Witness ==
    /\ mcLast.op = "Get"
    /\ mcLast.loaded
    /\ mcLast.res.err = ErrKeyNotFound
    /\ mc.data[mcLast.key] = {}

\* C25: a set with ttl = 0 stores an entry with the zero expiresAt; such an
\* entry stays as it is in every step other than a delete of its key, a
\* deleteByPrefix with a prefix of its key, or a call that stores its key
\* anew, whatever the clock says and whether the sweep runs; a get of it
\* returns its value and an exists true.
C25_ZeroTtlNeverExpires ==
    [][/\ (mcLast'.op = "Set" /\ mcLast'.ttl = 0)
          => mc'.data[mcLast'.key] = {Item(mcLast'.val, ZeroTime)}
       /\ \A k \in MemKeys :
            (\E item \in mc.data[k] : item.expiresAt = ZeroTime)
            => /\ \/ mc'.data[k] = mc.data[k]
                  \/ /\ mcLast' # mcLast
                     /\ \/ mcLast'.op \in {"Delete", "Set"} /\ mcLast'.key = k
                        \/ mcLast'.op = "DeleteByPrefix" /\ HasPrefix(k, mcLast'.key)
                        \/ mcLast'.op = "IncrWithExpire" /\ ExpKey(mcLast'.key) = k
               /\ (mcLast' # mcLast /\ mcLast'.op = "Get" /\ mcLast'.key = k)
                  => \E item \in mc.data[k] :
                        mcLast'.res = Result(ErrNil, item.value)
               /\ (mcLast' # mcLast /\ mcLast'.op = "Exists" /\ mcLast'.key = k)
                  => mcLast'.res = Result(ErrNil, BoolVal(TRUE))]_vars

\* an entry set without ttl is found by exists at the last clock value
C25_Witness ==
    /\ mcLast.op = "Exists"
    /\ mcLast.res = Result(ErrNil, BoolVal(TRUE))
    /\ now = MaxNow
    /\ \E item \in mc.data[mcLast.key] : item.expiresAt = ZeroTime

\* Bound: the increments made on one counter
MaxIncr == 2

CtlInit == MemInit /\ wired = "memory"

\* The counters, the availability flag and Close of the MemoryCache, with
\* its cleanupLoop goroutine
CtlNext ==
    \/ \E k \in CounterKeys : mc.counters[k] < MaxIncr /\ Mem("Incr", k, 0, 0)
    \/ \E k \in CounterKeys, t \in MemTTLs :
          mc.counters[k] < MaxIncr /\ Mem("IncrWithExpire", k, 0, t)
    \/ \E k \in CounterKeys : Mem("Exists", ExpKey(k), 0, 0)
    \/ Mem("Ping", <<>>, 0, 0)
    \/ Mem("IsAvailable", <<>>, 0, 0)
    \/ Mem("Close", <<>>, 0, 0)
    \/ MemCleanup
    \/ MemLoopReturn
    \/ MemTick

SpecCtl == CtlInit /\ [][CtlNext]_vars

IncrOps == {"Incr", "IncrWithExpire"}

\* C26: an increment of a key without counter returns 1; an increment of a
\* key with a counter returns the counter plus 1; the counter an increment
\* leaves is the number it returned, so that each increment returns what
\* the one before it on that key returned, plus 1.
C26_IncrementCounts ==
    [][\A k \in CounterKeys :
          (mcLast' # mcLast /\ mcLast'.op \in IncrOps /\ mcLast'.key = k)
          => /\ mcLast'.res.err = ErrNil
             /\ mc.counters[k] = 0 => mcLast'.res.val = 1
             /\ mc.counters[k] # 0 => mcLast'.res.val = mc.counters[k] + 1
             /\ mc'.counters[k] = mcLast'.res.val
             /\ (mcLast.op \in IncrOps /\ mcLast.key = k)
                => mcLast'.res.val = mcLast.res.val + 1]_vars

\* the second increment of a counter, made with a ttl
C26_Witness ==
    /\ mcLast.op = "IncrWithExpire"
    /\ mcLast.loaded
    /\ mcLast.res = Result(ErrNil, 2)
    /\ mc.counters[mcLast.key] = 2

\* C27: a Close returns without panic and leaves stopCh closed and the
\* cache unavailable; once stopCh is closed Ping returns ErrCacheUnavailable
\* and IsAvailable false, and cleanupLoop returns only then.
C27_CloseIsSafe ==
    /\ mcLast.op = "Close"
       => (mcLast.res.err = ErrNil /\ mc.stopCh = "closed" /\ ~mc.available)
    /\ (mcLast.op = "Ping" /\ mc.stopCh = "closed")
       => mcLast.res.err = ErrCacheUnavailable
    /\ (mcLast.op = "IsAvailable" /\ mc.stopCh = "closed")
       => mcLast.res = Result(ErrNil, BoolVal(FALSE))
    /\ mc.loop = "returned" => mc.stopCh = "closed"

(***************************************************************************)
(* Close of the orchestrator and its healthCheckLoop goroutine             *)
(***************************************************************************)

\* FallbackCache.Close: close(f.stopCh), primary.Close(), fallback.Close();
\* closing the closed stopCh panics before a backend is touched, and the
\* fallback is the MemoryCache, whose Close closes its own stopCh
FCClose ==
    LET m == MemCall("Close", <<>>, 0, 0, mc, now)
        panics == fcc.stopCh = "closed" \/ m.res.err = ErrPanic
    IN  /\ wired = "fallback"
        /\ fcc' = IF fcc.stopCh = "closed" THEN fcc
                  ELSE [fcc EXCEPT !.stopCh = "closed",
                                   !.closed = IF m.res.err = ErrPanic
                                              THEN {"primary"} ELSE Backends]
        /\ mc' = IF fcc.stopCh = "closed" THEN mc ELSE m.mc
        /\ fcLast' = [op |-> "Close", mode0 |-> mode, arg |-> <<>>, calls |-> <<>>,
                      res |-> IF panics THEN Result(ErrPanic, 0)
                              ELSE Result(ErrNil, 0)]
        /\ UNCHANGED <<mode, up, avail, data, cnt, pVars, stats, call, path, calc,
                       mut, mcLast, wired, rpc, rpcLast, gor, hist>>

\* healthCheckLoop takes a tick of its ticker: checkAndRecover.  select
\* picks among the ready cases, so a tick that is ready is taken whether or
\* not stopCh has been closed.
LoopTick == wired = "fallback" /\ fcc.loop = "running" /\ HealthCheckTick

\* healthCheckLoop receives from the closed stopCh and returns
LoopReturn ==
    /\ wired = "fallback"
    /\ fcc.loop = "running"
    /\ fcc.stopCh = "closed"
    /\ fcc' = [fcc EXCEPT !.loop = "returned"]
    /\ UNCHANGED <<fcVars, pVars, stats, call, path, calc, mut, mc, mcLast, wired,
                   rpc, rpcLast, gor, hist>>

\* The orchestrator is used, its backends fail and recover, and it is
\* closed, while its health-check goroutine runs.
CloseNext ==
    \/ \E k \in {<<1>>} : Get(k)
    \/ \E k \in {<<1>>}, v \in Values : Set(k, v, 0)
    \/ \E b \in Backends : BackendFlip(b)
    \/ FCClose
    \/ LoopTick
    \/ LoopReturn

SpecClose == FCInit /\ [][CloseNext]_vars

\* C28: once stopCh is closed the health-check loop pings the primary no
\* more and the mode is changed by no tick; a Close returns without panic
\* and leaves stopCh and both backends closed.
C28_CloseStopsLoop ==
    /\ [][fcc.stopCh = "closed"
            => ~(fcLast'.op = "tick" /\ fcLast' # fcLast)]_vars
    /\ [](fcLast.op = "Close"
            => /\ fcLast.res.err = ErrNil
               /\ fcc.stopCh = "closed"
               /\ fcc.closed = Backends)

(***************************************************************************)
(* The CacheBackend-backed permission cache (RedisPermissionCache)         *)
(***************************************************************************)

\* The characters of a key: the decimal digits 0..9, ':' and ',', and the
\* words "perm:user:", "space" and "all", which no key has a part of
Colon == 10
Comma == 11
permCacheKeyPrefix == <<12>>
SpaceWord == 13
permCacheAllSuffix == <<Colon, 14>>

\* %d, strconv.FormatUint(n, 10): the decimal digits of n
RECURSIVE FormatUint(_)
FormatUint(n) == IF n < 10 THEN <<n>> ELSE FormatUint(n \div 10) \o <<n % 10>>

\* fmt.Sprintf("%s%d:space:%d", c.keyPrefix, userID, spaceID)
buildKey(userID, spaceID) ==
    permCacheKeyPrefix \o FormatUint(userID) \o <<Colon, SpaceWord, Colon>>
        \o FormatUint(spaceID)

\* fmt.Sprintf("%s%d%s", c.keyPrefix, userID, permCacheAllSuffix)
buildAllKey(userID) == permCacheKeyPrefix \o FormatUint(userID) \o permCacheAllSuffix

\* mutant of buildUserPrefix: the ':' after the user ID is missing
buildUserPrefix_NoColon(userID) == permCacheKeyPrefix \o FormatUint(userID)

\* fmt.Sprintf("%s%d:", c.keyPrefix, userID)
buildUserPrefix(userID) == permCacheKeyPrefix \o FormatUint(userID) \o <<Colon>>

\* json.Marshal of a map[uint]uint64: the entries in the order of their keys
RECURSIVE MarshalMap(_, _)
MarshalMap(permissions, left) ==
    IF left = {} THEN <<>>
    ELSE LET sid == CHOOSE x \in left : \A y \in left : x <= y
         IN  FormatUint(sid) \o <<Colon>> \o FormatUint(permissions[sid])
                 \o <<Comma>> \o MarshalMap(permissions, left \ {sid})

\* CacheBackend.Set and DeleteByPrefix on the store K of [key, val] entries
StoreSet(K, key, val) == {e \in K : e.key # key} \cup {[key |-> key, val |-> val]}
StoreDeleteByPrefix(K, prefix) == {e \in K : ~HasPrefix(e.key, prefix)}

\* the store after Set(key(s), value(s)) for every space of the map
RECURSIVE SetSpaces(_, _, _, _)
SetSpaces(K, userID, permissions, left) ==
    IF left = {} THEN K
    ELSE LET sid == CHOOSE x \in left : TRUE
         IN  SetSpaces(StoreSet(K, buildKey(userID, sid), FormatUint(permissions[sid])),
                       userID, permissions, left \ {sid})

RpcFrame == UNCHANGED <<fcVars, pVars, stats, call, path, calc, mut, mc, mcLast,
                        wired, fcc, gor, hist>>

\* RedisPermissionCache.Set: one key per space, then the key of the JSON map
RpcSet(userID, permissions) ==
    /\ rpc' = StoreSet(SetSpaces(rpc, userID, permissions, DOMAIN permissions),
                       buildAllKey(userID),
                       MarshalMap(permissions, DOMAIN permissions))
    /\ rpcLast' = [op |-> "Set", user |-> userID,
                   calls |-> <<[op |-> "Set", key |-> buildAllKey(userID),
                                removed |-> 0]>>,
                   err |-> ErrNil]
    /\ RpcFrame

\* RedisPermissionCache.InvalidateUser
RpcInvalidateUser(userID) ==
    LET prefix == buildUserPrefix(userID)
        K == StoreDeleteByPrefix(rpc, prefix)
    IN  /\ rpc' = K
        /\ rpcLast' = [op |-> "InvalidateUser", user |-> userID,
                       calls |-> <<[op |-> "DeleteByPrefix", key |-> prefix,
                                    removed |-> Cardinality(rpc \ K)]>>,
                       err |-> ErrNil]
        /\ RpcFrame

\* user 1's decimal ID is a prefix of user 11's
RpcUsers == {1, 11}
RpcSpaces == {1, 2}
RpcMaps == UNION {[S -> {1}] : S \in SUBSET RpcSpaces}

RpcNext ==
    \/ \E u \in RpcUsers, m \in RpcMaps : RpcSet(u, m)
    \/ \E u \in RpcUsers : RpcInvalidateUser(u)

SpecRpc == FCInit /\ [][RpcNext]_vars

\* C29: InvalidateUser(u) makes one backend call, a DeleteByPrefix; after
\* it no per-space key and no all-permissions key of u is left, and every
\* entry under another key is there as it was.
C29_InvalidateUserOnly ==
    [][\A u \in RpcUsers :
          (rpcLast' # rpcLast /\ rpcLast'.op = "InvalidateUser" /\ rpcLast'.user = u)
          => LET own == {buildKey(u, sid) : sid \in RpcSpaces} \cup {buildAllKey(u)}
             IN  /\ Len(rpcLast'.calls) = 1
                 /\ rpcLast'.calls[1].op = "DeleteByPrefix"
                 /\ rpc' = {e \in rpc : e.key \notin own}]_vars

\* user 1 is invalidated, its three keys go, the three of user 11 stay
C29_Witness ==
    /\ rpcLast.op = "InvalidateUser"
    /\ rpcLast.user = 1
    /\ rpcLast.calls[1].removed = 3
    /\ {e.key : e \in rpc} = {buildKey(11, 1), buildKey(11, 2), buildAllKey(11)}

\* C30: a Get or Exists entered in Primary mode and answered by the primary
\* with "no such key" (ErrKeyNotFound, or false without error) returns that
\* answer and leaves the mode Primary and IsDegraded false.
C30_KeyNotFoundKeepsPrimary ==
    (/\ fcLast.op \in {"Get", "Exists"}
     /\ fcLast.mode0 = modePrimary
     /\ fcLast.calls[1].res \in {Result(ErrKeyNotFound, 0),
                                 Result(ErrNil, BoolVal(FALSE))})
    => /\ mode = modePrimary
       /\ ~IsDegraded
       /\ fcLast.res = fcLast.calls[1].res

(***************************************************************************)
(* Part VIII.  Calls that run concurrently                                 *)
(***************************************************************************)

\* the goroutines serving requests, and the health-check goroutine
Goroutines == {1, 2}
HC == 0

\* a goroutine that has not been handed a call yet
Parked == [pc |-> "idle"]
Gor(g) == IF g \in DOMAIN gor THEN gor[g] ELSE Parked
Put(f, g, r) == [x \in DOMAIN f \cup {g} |-> IF x = g THEN r ELSE f[x]]
Free(g) == Gor(g).pc \in {"idle", "done"}

GorFrame == UNCHANGED <<pVars, stats, call, path, calc, mut, mc, mcLast, wired,
                        fcc, rpc, rpcLast, hist>>

\* f.current(): the mode is loaded and the backend chosen
RaceBegin(g, op, k, v) ==
    /\ Free(g)
    /\ gor' = Put(gor, g, [pc |-> "first", op |-> op, key |-> k, val |-> v,
                           b1 |-> current(mode), calls |-> <<>>,
                           res |-> Result(ErrNil, 0)])
    /\ UNCHANGED fcVars
    /\ GorFrame

\* the call on the backend chosen
RaceFirst(g) ==
    /\ Gor(g).pc = "first"
    /\ LET c1 == BackendCall(gor[g].b1, gor[g].op, gor[g].key, gor[g].val, 0,
                             data, cnt)
       IN  /\ data' = c1.data
           /\ cnt' = c1.cnt
           /\ gor' = [gor EXCEPT ![g].pc = "check",
                                 ![g].calls = <<[b |-> gor[g].b1, res |-> c1.res]>>,
                                 ![g].res = c1.res]
    /\ UNCHANGED <<mode, up, avail, fcLast>>
    /\ GorFrame

\* err != nil && f.mode.Load() == modePrimary, and f.mode.Store(modeFallback)
RaceCheck(g) ==
    /\ Gor(g).pc = "check"
    /\ mode' = ModeAfter(gor[g].res, mode)
    /\ gor' = [gor EXCEPT ![g].pc = IF ShouldFailover(gor[g].res, mode)
                                    THEN "second" ELSE "done"]
    /\ UNCHANGED <<up, avail, data, cnt, fcLast>>
    /\ GorFrame

\* return f.fallback.Op(...)
RaceSecond(g) ==
    /\ Gor(g).pc = "second"
    /\ LET c2 == BackendCall("fallback", gor[g].op, gor[g].key, gor[g].val, 0,
                             data, cnt)
       IN  /\ data' = c2.data
           /\ cnt' = c2.cnt
           /\ gor' = [gor EXCEPT ![g].pc = "done",
                                 ![g].calls = Append(@, [b |-> "fallback",
                                                         res |-> c2.res]),
                                 ![g].res = c2.res]
    /\ UNCHANGED <<mode, up, avail, fcLast>>
    /\ GorFrame

\* checkAndRecover, statement by statement: f.primary.Ping(ctx)
HcPing ==
    /\ Gor(HC).pc = "idle"
    /\ avail' = up["primary"]
    /\ gor' = Put(gor, HC, [pc |-> "load", pingOk |-> up["primary"],
                            currentMode |-> modePrimary])
    /\ UNCHANGED <<mode, up, data, cnt, fcLast>>
    /\ GorFrame

\* currentMode := f.mode.Load()
HcLoad ==
    /\ Gor(HC).pc = "load"
    /\ gor' = [gor EXCEPT ![HC].pc = "store", ![HC].currentMode = mode]
    /\ UNCHANGED fcVars
    /\ GorFrame

\* the f.mode.Store of the branch taken, if one is taken
HcStore ==
    /\ Gor(HC).pc = "store"
    /\ LET m == RecoverMode(gor[HC].pingOk, gor[HC].currentMode)
       IN  mode' = IF m # gor[HC].currentMode THEN m ELSE mode
    /\ gor' = [gor EXCEPT ![HC] = Parked]
    /\ UNCHANGED <<up, avail, data, cnt, fcLast>>
    /\ GorFrame

RaceNext ==
    \/ \E g \in Goroutines : RaceBegin(g, "Get", <<1>>, 0)
    \/ \E g \in Goroutines, v \in Values : RaceBegin(g, "Set", <<1>>, v)
    \/ \E g \in Goroutines : RaceFirst(g)
    \/ \E g \in Goroutines : RaceCheck(g)
    \/ \E g \in Goroutines : RaceSecond(g)
    \/ HcPing
    \/ HcLoad
    \/ HcStore
    \/ BackendFlip("primary")

SpecRace == FCInit /\ [][RaceNext]_vars

\* C31: whatever the interleaving of orchestrator calls and health-check
\* ticks, a finished call whose first attempt went to the primary and
\* failed has made a second attempt on the secondary, and a finished call
\* whose first attempt went to the secondary has made no second one.
C31_RetryExactlyOnce ==
    \A g \in DOMAIN gor \ {HC} :
        gor[g].pc = "done"
        => /\ (gor[g].calls[1].b = "primary" /\ IsErr(gor[g].calls[1].res))
                => (Len(gor[g].calls) = 2 /\ gor[g].calls[2].b = "fallback")
           /\ gor[g].calls[1].b = "fallback" => Len(gor[g].calls) = 1

(***************************************************************************)
(* Part IX.  What a recovery leaves behind                                 *)
(***************************************************************************)

\* hist here: per key, the value the last successful write through the
\* orchestrator left (None after a delete) and the mode that write ran in
Noted(h, ks, v, m) ==
    [x \in DOMAIN h \cup ks |-> IF x \in ks THEN [val |-> v, mode |-> m] ELSE h[x]]

\* FallbackCache.Set / Delete / DeleteByPrefix, with the write noted
Write(op, k, v) ==
    /\ FCOperation(op, k, v, 0)
    /\ hist' = IF IsErr(fcLast'.res) THEN hist
               ELSE Noted(hist,
                          IF op = "DeleteByPrefix"
                          THEN {x \in Keys : HasPrefix(x, k)} ELSE {k},
                          IF op = "Set" THEN v ELSE None,
                          mode)
    /\ UNCHANGED <<up, avail, pVars, stats, call, path, calc, mut, mc, mcLast,
                   wired, fcc, rpc, rpcLast, gor>>

StaleNext ==
    \/ \E k \in Keys, v \in Values : Write("Set", k, v)
    \/ \E k \in Keys : Write("Delete", k, 0)
    \/ \E p \in Keys : Write("DeleteByPrefix", p, 0)
    \/ \E k \in Keys : Get(k)
    \/ HealthCheckTick
    \/ \E b \in Backends : BackendFlip(b)

SpecStale == FCInit /\ [][StaleNext]_vars

\* C32: a Get entered in Primary mode for a key whose last write through
\* the orchestrator (set, delete or deleteByPrefix) ran in Fallback mode
\* returns what that write left, never an older value: nothing if the key
\* was deleted, the new value if it was overwritten.
C32_NoStaleAfterRecovery ==
    (/\ fcLast.op = "Get"
     /\ fcLast.mode0 = modePrimary
     /\ fcLast.res.err = ErrNil
     /\ fcLast.arg[1] \in DOMAIN hist
     /\ hist[fcLast.arg[1]].mode = modeFallback)
    => fcLast.res.val = hist[fcLast.arg[1]].val

(***************************************************************************)
(* Part X.  A permission check recomputing beside a registry call          *)
(***************************************************************************)

\* the goroutine of the request being checked
Checker == 1
CheckFrame == UNCHANGED <<spaces, perms, roles, userRoles, rolePerms, now, pLast,
                          stats, call, path, calc, mut, mc, mcLast, wired, fcc,
                          rpc, rpcLast, hist, fcVars>>

\* HasPermission up to the miss, and the DeleteByUserID that opens
\* CalculateUserPermissions
RecomputeBegin(userID, code) ==
    /\ Free(Checker)
    /\ \E p \in PermFindByCode(code) :
          /\ CacheFind(cache, userID, p.space) = {}
          /\ cache' = DeleteByUserIDs(cache, {userID})
          /\ gor' = Put(gor, Checker, [pc |-> "read", user |-> userID,
                                       code |-> code, rows |-> {}])
    /\ CheckFrame

\* CalculateUserPermissions: FindByUserID and the FindByRoleID calls build sv
RecomputeRead ==
    /\ Gor(Checker).pc = "read"
    /\ gor' = [gor EXCEPT ![Checker].pc = "write",
                          ![Checker].rows =
                              RowsOf(LinksOfUser(gor[Checker].user),
                                     gor[Checker].user, ZeroTime)]
    /\ UNCHANGED cache
    /\ CheckFrame

\* CalculateUserPermissions: the Upsert of every entry of sv
RecomputeWrite ==
    /\ Gor(Checker).pc = "write"
    /\ cache' = UpsertAll(cache, gor[Checker].rows)
    /\ gor' = [gor EXCEPT ![Checker].pc = "done"]
    /\ CheckFrame

\* The registry calls of StepNext, one repository call per step, with the
\* steps of a permission check's recompute falling anywhere between them
RecomputeNext ==
    \/ \E id \in {1, 2} : DeleteRoleBegin(id)
    \/ DeleteRoleInvalidate
    \/ DeleteRoleLinks
    \/ DeleteRoleRow
    \/ \E code \in {CodeFor(1, 1), CodeFor(1, 2)} : AddPermissionBegin(1, code)
    \/ AddPermissionCreate
    \/ \E code \in {CodeFor(1, 1), CodeFor(1, 2)} : RemovePermissionBegin(1, code)
    \/ RemovePermissionDelete
    \/ PermissionClear
    \/ \E code \in {CodeFor(1, 1), CodeFor(2, 1)} : RecomputeBegin(1, code)
    \/ RecomputeRead
    \/ RecomputeWrite

SpecRecompute == StepInit /\ [][RecomputeNext]_vars

\* C33: once the registry call and the recompute have both finished, every
\* cache row (u, space) holds the OR of the values of u's current
\* Role-Permission links in that space.
C33_NoStaleRowAfterRace ==
    (call.pc = "idle" /\ Free(Checker))
    => \A row \in cache :
          row.value = OrOfLinks(LinksOfUser(row.user), row.space)

(***************************************************************************)
(* Part XI.  Permissions created by concurrent requests                    *)
(***************************************************************************)

CreateFrame == UNCHANGED <<spaces, roles, userRoles, rolePerms, cache, now, pLast,
                           stats, call, path, calc, mut, mc, mcLast, wired, fcc,
                           rpc, rpcLast, hist, fcVars>>

\* CreatePermission up to nextPos: FindByID, Exists, GetMaxPositionInSpace
CreateRead(g, code, spaceID) ==
    LET nextPos == NextPos(GetMaxPositionInSpace(spaceID))
        err == IF SpaceFindByID(spaceID) = {} THEN ErrPermissionSpaceNotFound
               ELSE IF PermExists(code) THEN ErrPermissionCodeExists
               ELSE IF SpaceFull(nextPos) THEN ErrPermissionSpaceFull
               ELSE ErrNil
    IN  /\ Free(g)
        /\ gor' = Put(gor, g, [pc |-> IF err = ErrNil THEN "insert" ELSE "done",
                               code |-> code, space |-> spaceID,
                               nextPos |-> nextPos, err |-> err])
        /\ UNCHANGED perms
        /\ CreateFrame

\* CreatePermission: permRepo.Create of the row built from nextPos; the
\* unique index on code is the only one the insert can run into
CreateInsert(g) ==
    /\ Gor(g).pc = "insert"
    /\ IF PermCodeTaken(gor[g].code)
       THEN /\ gor' = [gor EXCEPT ![g].pc = "done", ![g].err = ErrBackend]
            /\ UNCHANGED perms
       ELSE /\ gor' = [gor EXCEPT ![g].pc = "done"]
            /\ perms' = perms \cup
                  {NewPermission(gor[g].code, gor[g].space, gor[g].nextPos)}
    /\ CreateFrame

\* Two requests create permissions in the seeded space 1 and in a space
\* that does not exist
CreateNext ==
    \/ \E g \in Goroutines, k \in {3, 4, 5} : CreateRead(g, CodeFor(1, k), 1)
    \/ \E g \in Goroutines : CreateRead(g, CodeFor(3, 1), 3)
    \/ \E g \in Goroutines : CreateInsert(g)

SpecCreate == StepInit /\ [][CreateNext]_vars

\* C34: two createPermission calls that both read the maximum position of
\* a space before either inserts still create permissions with different
\* positions and different values: no two permissions of a space share a
\* position or a value.
C34_ConcurrentCreatesDiffer ==
    \A p \in perms, q \in perms :
        (p # q /\ p.space = q.space)
        => (p.position # q.position /\ p.value # q.value)

(***************************************************************************)
(* Part XII.  Concurrent calls on the in-process cache                     *)
(***************************************************************************)

\* the goroutines that each make one increment call
Incrementers == 1..(MaxIncr + 1)

MemGorFrame == UNCHANGED <<pVars, stats, call, path, calc, mut, mcLast, wired,
                           fcc, rpc, rpcLast, hist, fcVars>>

\* Is the counter in the counters map ?  The atomic.Int64 LoadOrStore puts
\* there is zero until its creator stores 1 in it; every other write makes or
\* leaves it positive, and no call removes a counter.
CounterLoaded(k) ==
    \/ mc.counters[k] # 0
    \/ \E h \in DOMAIN gor : gor[h].pc = "store" /\ gor[h].key = k

\* Incr: m.counters.LoadOrStore(key, &atomic.Int64{})
IncrLoadOrStore(g, op, k) ==
    /\ Gor(g).pc = "idle"
    /\ gor' = Put(gor, g, [pc |-> IF CounterLoaded(k) THEN "add" ELSE "store",
                           op |-> op, key |-> k, ret |-> 0])
    /\ UNCHANGED mc
    /\ MemGorFrame

\* what follows the return of Incr: IncrWithExpire has the expiry to store
AfterIncr(op) == IF op = "IncrWithExpire" THEN "exp" ELSE "done"

\* Incr, loaded: return counter.Add(1)
IncrAdd(g) ==
    /\ Gor(g).pc = "add"
    /\ mc' = [mc EXCEPT !.counters[gor[g].key] = @ + 1]
    /\ gor' = [gor EXCEPT ![g].pc = AfterIncr(gor[g].op),
                          ![g].ret = mc.counters[gor[g].key] + 1]
    /\ MemGorFrame

\* Incr, not loaded: counter.Store(1); return 1
IncrStore(g) ==
    /\ Gor(g).pc = "store"
    /\ mc' = [mc EXCEPT !.counters[gor[g].key] = 1]
    /\ gor' = [gor EXCEPT ![g].pc = AfterIncr(gor[g].op), ![g].ret = 1]
    /\ MemGorFrame

\* IncrWithExpire: m.data.Store(key + "_exp", item)
IncrExpire(g) ==
    /\ Gor(g).pc = "exp"
    /\ mc' = [mc EXCEPT !.data[ExpKey(gor[g].key)] = {Item(None, now + 1)}]
    /\ gor' = [gor EXCEPT ![g].pc = "done"]
    /\ MemGorFrame

IncrNext ==
    \/ \E g \in Incrementers, k \in CounterKeys : IncrLoadOrStore(g, "Incr", k)
    \/ \E g \in Incrementers, k \in CounterKeys :
          IncrLoadOrStore(g, "IncrWithExpire", k)
    \/ \E g \in Incrementers : IncrAdd(g)
    \/ \E g \in Incrementers : IncrStore(g)
    \/ \E g \in Incrementers : IncrExpire(g)
    \/ MemTick

SpecIncr == CtlInit /\ [][IncrNext]_vars

\* C35: when N goroutines have each made one increment call on a key whose
\* counter was absent, the values returned are the N values 1..N and the
\* counter stands at N.
C35_NoLostIncrement ==
    (\A g \in Incrementers : Gor(g).pc \in {"exp", "done"})
    => \A k \in CounterKeys :
          /\ {gor[g].ret : g \in Incrementers} = 1..Cardinality(Incrementers)
          /\ mc.counters[k] = Cardinality(Incrementers)

\* Get / Exists / cleanup up to the expiry test: m.data.Load(key) (for the
\* sweep, the entry Range hands to the callback) and item.isExpired()
LazyLoad(g, op, k) ==
    /\ wired = "memory"
    /\ Free(g)
    /\ op = "cleanup" => (mc.loop = "running" /\ mc.data[k] # {})
    /\ gor' = Put(gor, g,
                  IF mc.data[k] = {}
                  THEN [pc |-> "done", op |-> op, key |-> k,
                        res |-> IF op = "Get" THEN Result(ErrKeyNotFound, 0)
                                ELSE Result(ErrNil, BoolVal(FALSE))]
                  ELSE LET item == CHOOSE x \in mc.data[k] : TRUE
                       IN  IF isExpired(item, now)
                           THEN [pc |-> "delete", op |-> op, key |-> k,
                                 res |-> IF op = "Get" THEN Result(ErrKeyNotFound, 0)
                                         ELSE Result(ErrNil, BoolVal(FALSE))]
                           ELSE [pc |-> "done", op |-> op, key |-> k,
                                 res |-> IF op = "Get" THEN Result(ErrNil, item.value)
                                         ELSE Result(ErrNil, BoolVal(TRUE))])
    /\ UNCHANGED mc
    /\ MemGorFrame

\* the m.data.Delete(key) that follows an expired entry
LazyDelete(g) ==
    /\ Gor(g).pc = "delete"
    /\ mc' = [mc EXCEPT !.data[gor[g].key] = {}]
    /\ gor' = [gor EXCEPT ![g].pc = "done"]
    /\ MemGorFrame

\* Requests read a key and the sweep visits it, statement by statement,
\* while other requests set it and time passes
LazyNext ==
    \/ \E g \in Goroutines : LazyLoad(g, "Get", <<1>>)
    \/ \E g \in Goroutines : LazyLoad(g, "Exists", <<1>>)
    \/ LazyLoad(HC, "cleanup", <<1>>)
    \/ \E g \in Goroutines \cup {HC} : LazyDelete(g)
    \/ \E v \in Values, t \in MemTTLs : Mem("Set", <<1>>, v, t)
    \/ MemTick

SpecLazy == CtlInit /\ [][LazyNext]_vars

\* C36: as long as the last call made on the cache is a Set(k, v, ttl) and
\* its ttl has not elapsed, k holds the entry that Set stored (so that
\* get(k) returns v), whatever a Get, an Exists or the sweep that saw an
\* expired entry of k before the Set does afterwards.
C36_FreshEntryKept ==
    (/\ mcLast.op = "Set"
     /\ ~isExpired(Item(mcLast.val, ExpiryFor(mcLast.ttl, mcLast.now)), now))
    => mc.data[mcLast.key] = {Item(mcLast.val, ExpiryFor(mcLast.ttl, mcLast.now))}

(***************************************************************************)
(* Part XIII.  The rate limiter over the in-process cache                  *)
(***************************************************************************)

\* NewRedisRateLimiter(cacheBackend, rate, window): the container asks for
\* 100 requests a minute; here the rate is MaxIncr and the window is longer
\* than the run, so that every call falls into the bucket 0
Rate == MaxIncr
Window == MaxNow + 1
\* the identifier of the one client
Client == 2

\* RedisRateLimiter.buildKey at time t: prefix, identifier and the bucket
\* time.Now().Unix() / window, a different key for every bucket
RateKey(identifier, t) == <<identifier + (t \div Window)>>

\* what Allow answers for the count IncrWithExpire returned
Allowed(count) == count <= Rate

\* Allow called by MaxIncr + 1 concurrent requests of one client: buildKey
\* and IncrWithExpire, statement by statement, on the MemoryCache
LimitNext ==
    \/ \E g \in Incrementers :
          /\ RateKey(Client, now) \in CounterKeys
          /\ IncrLoadOrStore(g, "IncrWithExpire", RateKey(Client, now))
    \/ \E g \in Incrementers : IncrAdd(g)
    \/ \E g \in Incrementers : IncrStore(g)
    \/ \E g \in Incrementers : IncrExpire(g)
    \/ MemTick

SpecLimit == CtlInit /\ [][LimitNext]_vars

\* C37: of the Allow calls one identifier makes within one window, at most
\* Rate return allowed = true.
C37_AtMostRateAllowed ==
    Cardinality({g \in DOMAIN gor : gor[g].pc = "done" /\ Allowed(gor[g].ret)})
        <= Rate

(***************************************************************************)
(* Part XIV.  Shutdown through the container                               *)
(***************************************************************************)

\* Container.Close: redisCache.Close() and memoryCache.Close(); cacheBackend,
\* the FallbackCache built over the two, is not touched.  The closed Redis
\* client answers no call any more.
ContainerClose ==
    LET m == MemCall("Close", <<>>, 0, 0, mc, now)
    IN  /\ wired = "fallback"
        /\ fcc.closed = {}
        /\ fcc' = [fcc EXCEPT !.closed = Backends]
        /\ mc' = m.mc
        /\ up' = [up EXCEPT !["primary"] = FALSE]
        /\ fcLast' = [op |-> "ContainerClose", mode0 |-> mode, arg |-> <<>>,
                      calls |-> <<>>, res |-> m.res]
        /\ UNCHANGED <<mode, avail, data, cnt, pVars, stats, call, path, calc,
                       mut, mcLast, wired, rpc, rpcLast, gor, hist>>

\* The application serves requests through the orchestrator while the
\* primary fails and recovers, and then shuts down; the health-check
\* goroutine runs beside it.  Nothing the container calls closes
\* FallbackCache.stopCh, so the loop's return is never ready.
ShutdownNext ==
    \/ \E k \in {<<1>>} : fcc.closed = {} /\ Get(k)
    \/ \E k \in {<<1>>}, v \in Values : fcc.closed = {} /\ Set(k, v, 0)
    \/ fcc.closed = {} /\ BackendFlip("primary")
    \/ ContainerClose
    \/ LoopTick

SpecShutdown == FCInit /\ [][ShutdownNext]_vars

\* C38: once Container.Close has returned no health-check tick runs any
\* more (no ping, no mode change by the loop), and Container.Close closes
\* each backend once, without a panic.
C38_ShutdownStopsLoop ==
    /\ [][fcc.closed = Backends
            => ~(fcLast'.op = "tick" /\ fcLast' # fcLast)]_vars
    /\ [](fcLast.op = "ContainerClose" => fcLast.res.err = ErrNil)

(***************************************************************************)
(* Part XV.  Creating a role with its permissions                          *)
(***************************************************************************)

ErrRoleNameExists == "ErrRoleNameExists"

\* the ID the database gives the next row of roles
NextRoleID(R) == 1 + Cardinality(R)

\* BitPermissionManager.CreateRoleWithPermissions: roleRepo.Exists counts
\* the live rows of the name, roleRepo.Create runs into the unique index
\* on name, which covers soft-deleted rows too, and the links are added by
\* AddPermissionsToRole
CreateRoleWithPermissions(S, name, codes, fails) ==
    IF \E r \in S.roles : r.name = name /\ ~r.deleted
    THEN [S EXCEPT !.err = ErrRoleNameExists]
    ELSE IF \E r \in S.roles : r.name = name
    THEN [S EXCEPT !.err = ErrDuplicatedKey]
    ELSE LET id == NextRoleID(S.roles)
             S1 == [S EXCEPT !.roles = @ \cup {[id |-> id, name |-> name,
                                                isSystem |-> FALSE,
                                                deleted |-> FALSE]}]
         IN  IF Len(codes) > 0 THEN AddMany(S1, id, codes, fails) ELSE S1

\* the codes offered: two permissions of the seeded database and a code
\* that names no permission
RoleCodes == {CodeFor(1, 2), CodeFor(2, 1), CodeFor(1, 3)}
NoFails(codes) == [i \in 1..Len(codes) |-> FALSE]

\* Roles are created with lists of codes on the seeded database of
\* StepInit, and created roles are deleted again
RoleNext ==
    \/ \E name \in {"auditor", "operator"}, cs \in CodeLists(RoleCodes) \cup {<<>>} :
          Mutation("CreateRoleWithPermissions", name, cs,
                   CreateRoleWithPermissions(Started, name, cs, NoFails(cs)))
    \/ \E id \in {4, 5} :
          Mutation("DeleteRole", id, <<>>, DeleteRoleOne(Started, id, FALSE))

SpecRole == StepInit /\ [][RoleNext]_vars

\* C39: after a createRole(name, codes) that failed because a code names
\* no permission, no role called name exists and no Role-Permission link
\* belongs to a role of that name.
C39_CreateRoleAllOrNothing ==
    (mut.op = "CreateRoleWithPermissions" /\ mut.err = ErrPermissionNotFound)
    => /\ ~\E r \in roles : r.name = mut.a
       /\ ~\E rp \in rolePerms : \E r \in roles :
              r.id = rp.role /\ r.name = mut.a

TypePerm == now = 1
====
